---- MODULE Spec2Model ----
(***************************************************************************)
(* A model of bg-remover's BackgroundRemoverCore: the mode router, the     *)
(* color classifier (single- and multi-pass), the color-based text mask,   *)
(* the connected-component labeler, the hybrid compositing pipeline and    *)
(* the batch loop.                                                         *)
(*                                                                         *)
(* Conventions.  An optional JavaScript value (null / undefined or a       *)
(* value) is a sequence of length 0 or 1.  A raster is a record            *)
(* [width, height, data] whose data is a function from the flat pixel      *)
(* index y * width + x to a pixel [r, g, b, a] (Jimp's bitmap.data holds   *)
(* the same four channels at byte offset 4 * (y * width + x)).             *)
(***************************************************************************)
EXTENDS Integers, Sequences, FiniteSets, TLC

VARIABLES
    opts,          \* the options object handed to the constructor
    this,          \* the BackgroundRemoverCore instance's fields
    pc,            \* position inside the current removeBackground call
    file,          \* the input file of the current call, with its environment
    outputPath,    \* the output path of the current call
    image,         \* color mode: the Jimp image being scanned
    passI,         \* color mode: the multi-pass loop index i
    pixelsChanged, \* color mode: pixelsChanged of every finished scan
    personMask,    \* hybrid mode: the decoded AI cutout
    textRegions,   \* hybrid mode: the detected text regions
    combinedMask,  \* hybrid mode: the composited raster
    touched,       \* hybrid mode: every (px, py) used to index the buffers
    textMask,      \* labeler: the boolean mask last handed to findConnectedComponents
    components,    \* labeler: every component bfs returned, in scan order
    lab,           \* labeler: the loop position, visited, and bfs's queue and points
    ret,           \* what the current call returned: none / true / false / throw
    events,        \* the steps the current call has run, in order
    writes,        \* every output file written so far, in order
    bpc,           \* position inside processBatch
    dir,           \* processBatch: the listing of the input directory
    imageFiles,    \* processBatch: the supported files of the listing
    bi,            \* processBatch: the loop index i
    stats,         \* processBatch: the statistics object
    attempts,      \* processBatch: the removeBackground calls made, in order
    argv,          \* command line: the arguments and the ZIP collaborator's outcome
    cliOptions,    \* command line: the options object parseArgs returned
    cpc,           \* command line: position inside main
    exitCode,      \* command line: the status handed to process.exit, or -1
    zips           \* command line: the createZip calls that resolved, in order

vars == << opts, this, pc, file, outputPath, image, passI, pixelsChanged,
           personMask, textRegions, combinedMask, touched, textMask,
           components, lab, ret, events, writes, bpc, dir, imageFiles, bi, stats,
           attempts, argv, cliOptions, cpc, exitCode, zips >>

callVars == << pc, file, outputPath, image, passI, pixelsChanged, personMask,
               textRegions, combinedMask, touched, textMask, components, lab, ret,
               events >>

batchVars == << bpc, dir, imageFiles, bi, stats, attempts >>

cliVars == << argv, cliOptions, cpc, exitCode, zips >>

(***************************************************************************)
(* Bounds of the model.                                                    *)
(***************************************************************************)
\* pixels of a raster handed to the color classifier
NumPixels == 2
\* longest colorPasses list
MaxPasses == 2
\* width and height of the grid the labeler is run on
GridW == 11
GridH == 10
\* most files in a batch's input directory
MaxFiles == 3
\* width and height of the small rasters of the hybrid pipeline
HybW == 6
HybH == 4
\* most words the OCR collaborator returns
MaxWords == 2

(***************************************************************************)
(* Helpers.                                                                *)
(***************************************************************************)
Max2(a, b) == IF a >= b THEN a ELSE b
Min2(a, b) == IF a <= b THEN a ELSE b

None == << >>
Some(v) == << v >>
IsSome(o) == Len(o) > 0
Get(o) == o[1]

Range(s) == { s[k] : k \in 1..Len(s) }

RGB(r, g, b) == [r |-> r, g |-> g, b |-> b]
Pixel(r, g, b, a) == [r |-> r, g |-> g, b |-> b, a |-> a]

NoRaster == [width |-> 0, height |-> 0, data |-> << >>]

NoLab == [idx |-> 0, start |-> 0, visited |-> << >>, queue |-> << >>,
          points |-> << >>]

\* path.extname(p).toLowerCase() on the extensions the model uses
ToLowerCase(ext) == IF ext = ".PNG" THEN ".png" ELSE ext

supportedFormats == << ".jpg", ".jpeg", ".png", ".webp", ".bmp", ".gif" >>

\* options.x || d for a number: 0 (like undefined and NaN) is falsy
OrDefault(x, d) == IF x = 0 THEN d ELSE x

\* options.s || d for a string: "" (like undefined) is falsy
OrDefaultStr(s, d) == IF s = "" THEN d ELSE s

DefaultTextColors == << << 255, 255, 255 >> >>

\* constructor(options)
Constructor(options) ==
    [ mode              |-> OrDefaultStr(options.mode, "ai"),
      targetColor       |-> options.targetColor,
      threshold         |-> OrDefault(options.threshold, 50),
      feather           |-> OrDefault(options.feather, 0),
      colorPasses       |-> options.colorPasses,
      textPadding       |-> OrDefault(options.textPadding, 5),
      textDetectionMode |-> OrDefaultStr(options.textDetectionMode, "ocr"),
      textColors        |-> IF IsSome(options.textColors)
                            THEN Get(options.textColors)
                            ELSE DefaultTextColors,
      textThreshold     |-> OrDefault(options.textThreshold, 40) ]

\* isSupportedFormat(filePath), and the same test inlined in each pipeline
isSupportedFormat(name) == ToLowerCase(name.ext) \in Range(supportedFormats)

(***************************************************************************)
(* ColorMetric.  calculateColorDistance returns Math.sqrt of the sum of    *)
(* the squared channel differences; the model keeps the radicand, an       *)
(* integer in 0..195075, and states each comparison of the distance on it. *)
(***************************************************************************)
\* a metric that counts the red difference only when the first color is
\* the redder one
calculateColorDistanceSqOneSided(color1, color2) ==
    LET rDiff == Max2(0, color1.r - color2.r)
        gDiff == color1.g - color2.g
        bDiff == color1.b - color2.b
    IN  rDiff * rDiff + gDiff * gDiff + bDiff * bDiff

calculateColorDistanceSq(color1, color2) ==
    LET rDiff == color1.r - color2.r
        gDiff == color1.g - color2.g
        bDiff == color1.b - color2.b
    IN  rDiff * rDiff + gDiff * gDiff + bDiff * bDiff

\* the threshold test on the distance rounded down: Math.floor(distance) <= t
DistanceLeqFloor(sq, t) == t >= 0 /\ sq < (t + 1) * (t + 1)

\* distance <= t for an integer t: Math.sqrt is exact on perfect squares and
\* monotone, so sqrt(sq) <= t exactly when t >= 0 and sq <= t * t.
DistanceLeq(sq, t) == t >= 0 /\ sq <= t * t

\* x <= a * distance for integers x and a > 0, compared on the squares:
\* with x = q * a + r, x * x <= a * a * sq is decided by q when sq is not
\* between q * q and (q + 1) * (q + 1), which keeps the products small
LeqScaled(x, a, sq) ==
    \/ x <= 0
    \/ LET q == x \div a
           r == x % a
       IN  IF sq < q * q THEN FALSE
           ELSE IF sq >= (q + 1) * (q + 1) THEN TRUE
           ELSE 2 * q * a * r + r * r <= a * a * (sq - q * q)

\* a ramp that fades with the distance: a - Math.floor(a * featherRatio)
FeatherAlphaFading(a, sq, threshold, feather) ==
    IF a = 0 THEN 0
    ELSE CHOOSE k \in 0..a :
           /\ LeqScaled((a - k) * feather + a * threshold, a, sq)
           /\ \/ k = 0
              \/ ~LeqScaled((a - k + 1) * feather + a * threshold, a, sq)

\* Math.floor(a * ((distance - threshold) / feather)) for threshold < distance
\* <= threshold + feather: the largest k with k * feather + a * threshold
\* <= a * distance.  (On the inputs of the model the double-precision
\* product has the same floor as the exact one.)
FeatherAlpha(a, sq, threshold, feather) ==
    IF a = 0 THEN 0
    ELSE CHOOSE k \in 0..a :
           /\ LeqScaled(k * feather + a * threshold, a, sq)
           /\ \/ k = a
              \/ ~LeqScaled((k + 1) * feather + a * threshold, a, sq)

(***************************************************************************)
(* ColorMaskClassifier: the two scan callbacks of removeBackgroundColor.   *)
(***************************************************************************)
\* SinglePassPixel with the threshold test written distance < threshold
SinglePassPixelStrict(p, targetColor, threshold, feather) ==
    LET distanceSq == calculateColorDistanceSq(RGB(p.r, p.g, p.b), targetColor)
    IN  IF threshold > 0 /\ distanceSq < threshold * threshold
        THEN [p EXCEPT !.a = 0]
        ELSE IF feather > 0 /\ DistanceLeq(distanceSq, threshold + feather)
        THEN [p EXCEPT !.a = FeatherAlpha(p.a, distanceSq, threshold, feather)]
        ELSE p

\* the callback of the single-pass image.scan, on one pixel
\* a scan that clears the whole pixel, color included, when it removes it
SinglePassPixelCleared(p, targetColor, threshold, feather) ==
    LET distanceSq == calculateColorDistanceSq(RGB(p.r, p.g, p.b), targetColor)
    IN  IF DistanceLeq(distanceSq, threshold)
        THEN Pixel(0, 0, 0, 0)
        ELSE IF feather > 0 /\ DistanceLeq(distanceSq, threshold + feather)
        THEN [p EXCEPT !.a = FeatherAlpha(p.a, distanceSq, threshold, feather)]
        ELSE p

SinglePassPixel(p, targetColor, threshold, feather) ==
    LET distanceSq == calculateColorDistanceSq(RGB(p.r, p.g, p.b), targetColor)
    IN  IF DistanceLeq(distanceSq, threshold)
        THEN [p EXCEPT !.a = 0]
        ELSE IF feather > 0 /\ DistanceLeq(distanceSq, threshold + feather)
        THEN [p EXCEPT !.a = FeatherAlpha(p.a, distanceSq, threshold, feather)]
        ELSE p

\* pixelsChanged++ of the single-pass callback
SinglePassCounts(p, targetColor, threshold) ==
    DistanceLeq(calculateColorDistanceSq(RGB(p.r, p.g, p.b), targetColor),
                threshold)

\* MultiPassPixel writing a binary alpha to every pixel, transparent or not
MultiPassPixelBinary(p, pass) ==
    IF DistanceLeq(calculateColorDistanceSq(RGB(p.r, p.g, p.b), pass.color),
                   pass.threshold)
    THEN [p EXCEPT !.a = 0]
    ELSE [p EXCEPT !.a = 255]

\* the callback of one multi-pass image.scan, on one pixel
\* a scan with no skip of transparent pixels that flips what it matches:
\* a matching pixel an earlier pass removed becomes opaque again
MultiPassPixelFlipping(p, pass) ==
    IF DistanceLeq(calculateColorDistanceSq(RGB(p.r, p.g, p.b), pass.color),
                   pass.threshold)
    THEN [p EXCEPT !.a = IF p.a = 0 THEN 255 ELSE 0]
    ELSE p

MultiPassPixel(p, pass) ==
    IF p.a = 0 THEN p
    ELSE IF DistanceLeq(calculateColorDistanceSq(RGB(p.r, p.g, p.b), pass.color),
                        pass.threshold)
    THEN [p EXCEPT !.a = 0]
    ELSE p

\* pixelsChanged++ of the multi-pass callback
MultiPassCounts(p, pass) ==
    /\ p.a # 0
    /\ DistanceLeq(calculateColorDistanceSq(RGB(p.r, p.g, p.b), pass.color),
                   pass.threshold)

\* image.scan(0, 0, width, height, callback) of the single-pass branch
ScanSingle(img, targetColor, threshold, feather) ==
    [img EXCEPT !.data =
        [idx \in DOMAIN img.data |->
            SinglePassPixel(img.data[idx], targetColor, threshold, feather)]]

\* image.scan(0, 0, width, height, callback) of pass i of the multi-pass loop
ScanPass(img, pass) ==
    [img EXCEPT !.data =
        [idx \in DOMAIN img.data |-> MultiPassPixel(img.data[idx], pass)]]

\* the loop over this.colorPasses, from pass k on
RECURSIVE PassLoop(_, _, _)
PassLoop(k, img, passes) ==
    IF k > Len(passes) THEN img
    ELSE PassLoop(k + 1, ScanPass(img, passes[k]), passes)

(***************************************************************************)
(* removeBackground and the color pipeline, step by step.                  *)
(***************************************************************************)
\* a catch block that rethrows, as the one of processBatch does
FailRethrows ==
    /\ pc' = "returned"
    /\ ret' = "throw"

\* the catch block of a pipeline: log the error and return false
Fail ==
    /\ pc' = "returned"
    /\ ret' = "false"

\* the call state before removeBackground runs on f
EnterCall(f, out) ==
    /\ pc' = "call"
    /\ file' = f
    /\ outputPath' = out
    /\ image' = NoRaster
    /\ passI' = 0
    /\ pixelsChanged' = << >>
    /\ personMask' = NoRaster
    /\ textRegions' = << >>
    /\ combinedMask' = NoRaster
    /\ touched' = {}
    /\ textMask' = << >>
    /\ components' = << >>
    /\ lab' = NoLab
    /\ ret' = "none"
    /\ events' = << >>

\* a router that sends every mode but 'ai' to the color pipeline
RemoveBackgroundTwoWay ==
    /\ pc = "call"
    /\ IF this.mode = "ai" THEN pc' = "ai" /\ ret' = ret
       ELSE pc' = "color" /\ ret' = ret
    /\ UNCHANGED << opts, this, file, outputPath, image, passI, pixelsChanged,
                    personMask, textRegions, combinedMask, touched, textMask,
                    components, lab, events, writes >>
    /\ UNCHANGED batchVars
    /\ UNCHANGED cliVars

\* removeBackground(inputPath, outputPath, format): the router
RemoveBackground ==
    /\ pc = "call"
    /\ IF this.mode = "ai" THEN pc' = "ai" /\ ret' = ret
       ELSE IF this.mode = "color" THEN pc' = "color" /\ ret' = ret
       ELSE IF this.mode = "hybrid" THEN pc' = "hybrid" /\ ret' = ret
       ELSE pc' = "returned" /\ ret' = "throw"
    /\ UNCHANGED << opts, this, file, outputPath, image, passI, pixelsChanged,
                    personMask, textRegions, combinedMask, touched, textMask,
                    components, lab, events, writes >>
    /\ UNCHANGED batchVars
    /\ UNCHANGED cliVars

\* removeBackgroundColor up to the first scan: the input checks, the choice
\* between the multi-pass and the single-pass branch, and Jimp.read
ColorOpen ==
    /\ pc = "color"
    /\ IF ~file.exists \/ ~isSupportedFormat(file.name)
       THEN Fail /\ UNCHANGED << image, events >>
       ELSE IF IsSome(this.colorPasses) /\ Len(Get(this.colorPasses)) > 0
       THEN IF IsSome(file.raster)
            THEN /\ image' = Get(file.raster)
                 /\ events' = Append(events, "read")
                 /\ pc' = "color.pass"
                 /\ ret' = ret
            ELSE Fail /\ UNCHANGED << image, events >>
       ELSE IF ~IsSome(this.targetColor)
       THEN Fail /\ UNCHANGED << image, events >>
       ELSE IF IsSome(file.raster)
            THEN /\ image' = Get(file.raster)
                 /\ events' = Append(events, "read")
                 /\ pc' = "color.scan"
                 /\ ret' = ret
            ELSE Fail /\ UNCHANGED << image, events >>
    /\ passI' = 0
    /\ UNCHANGED << opts, this, file, outputPath, pixelsChanged, personMask,
                    textRegions, combinedMask, touched, textMask, components, lab,
                    writes >>
    /\ UNCHANGED batchVars
    /\ UNCHANGED cliVars

\* one iteration of the multi-pass loop: the scan of pass i
ColorPass ==
    /\ pc = "color.pass"
    /\ passI < Len(Get(this.colorPasses))
    /\ LET pass == Get(this.colorPasses)[passI + 1]
       IN  /\ image' = ScanPass(image, pass)
           /\ pixelsChanged' = Append(pixelsChanged,
                  Cardinality({ idx \in DOMAIN image.data :
                                  MultiPassCounts(image.data[idx], pass) }))
    /\ passI' = passI + 1
    /\ events' = Append(events, "classify")
    /\ pc' = IF passI + 1 < Len(Get(this.colorPasses))
             THEN "color.pass" ELSE "color.write"
    /\ UNCHANGED << opts, this, file, outputPath, personMask, textRegions,
                    combinedMask, touched, textMask, components, lab, ret, writes >>
    /\ UNCHANGED batchVars
    /\ UNCHANGED cliVars

\* the single-pass scan
ColorScan ==
    /\ pc = "color.scan"
    /\ LET targetColor == Get(this.targetColor)
       IN  /\ image' = ScanSingle(image, targetColor, this.threshold,
                                  this.feather)
           /\ pixelsChanged' = << Cardinality({ idx \in DOMAIN image.data :
                  SinglePassCounts(image.data[idx], targetColor,
                                   this.threshold) }) >>
    /\ events' = Append(events, "classify")
    /\ pc' = "color.write"
    /\ UNCHANGED << opts, this, file, outputPath, passI, personMask,
                    textRegions, combinedMask, touched, textMask, components, lab,
                    ret, writes >>
    /\ UNCHANGED batchVars
    /\ UNCHANGED cliVars

\* fs.mkdir, image.writeAsync(outputPath) and return true
ColorWrite ==
    /\ pc = "color.write"
    /\ writes' = Append(writes, [path |-> outputPath, raster |-> image])
    /\ events' = Append(events, "write")
    /\ pc' = "returned"
    /\ ret' = "true"
    /\ UNCHANGED << opts, this, file, outputPath, image, passI, pixelsChanged,
                    personMask, textRegions, combinedMask, touched, textMask,
                    components, lab >>
    /\ UNCHANGED batchVars
    /\ UNCHANGED cliVars

(***************************************************************************)
(* The inputs of the color classifier's specification.                     *)
(***************************************************************************)
Blue == RGB(0, 0, 255)
Red == RGB(255, 0, 0)

\* pixels at distance 0, 5, 10, 10.1, 11, 12, 16, 55, 360.6 and 441.67 from
\* Blue, two of them already transparent and one partly transparent
ClassifierPixels ==
    { Pixel(0, 0, 255, 255), Pixel(3, 4, 255, 255), Pixel(0, 6, 247, 255),
      Pixel(0, 0, 244, 200), Pixel(0, 0, 200, 255), Pixel(255, 0, 0, 255),
      Pixel(0, 0, 255, 0), Pixel(255, 0, 0, 0), Pixel(1, 1, 245, 255),
      Pixel(0, 0, 243, 255), Pixel(0, 0, 239, 255), Pixel(255, 255, 0, 255) }

ClassifierRasters ==
    { [width |-> NumPixels, height |-> 1, data |-> d] :
        d \in [0..(NumPixels - 1) -> ClassifierPixels] }

ColorPassChoices ==
    { [color |-> Blue, threshold |-> 0], [color |-> Blue, threshold |-> 10],
      [color |-> Red, threshold |-> 0], [color |-> Blue, threshold |-> 441] }

PassLists ==
    UNION { [1..n -> ColorPassChoices] : n \in 0..MaxPasses }

BaseOptions ==
    [ mode |-> "color", targetColor |-> None, threshold |-> 50, feather |-> 0,
      colorPasses |-> None, textPadding |-> 5, textDetectionMode |-> "ocr",
      textColors |-> None, textThreshold |-> 40 ]

SinglePassOptions ==
    { [BaseOptions EXCEPT !.targetColor = tc, !.threshold = th,
                          !.feather = fe, !.colorPasses = cp] :
        tc \in { None, Some(Blue), Some(Red) }, th \in { 0, 5, 10, 441, 442 },
        fe \in { 0, 6 }, cp \in { None, Some(<< >>) } }

MultiPassOptions ==
    { [BaseOptions EXCEPT !.colorPasses = Some(pl)] :
        pl \in PassLists \ { << >> } }

PngName == [base |-> "a", ext |-> ".png"]

NoEnv == [ai |-> None, ocr |-> [throws |-> FALSE, words |-> << >>]]

InputFile(name, exists, raster) ==
    [name |-> name, exists |-> exists, raster |-> raster,
     ai |-> None, ocr |-> [throws |-> FALSE, words |-> << >>]]

ClassifierFiles ==
    { InputFile(PngName, TRUE, Some(r)) : r \in ClassifierRasters }
    \cup { InputFile(PngName, FALSE, None),
           InputFile([base |-> "a", ext |-> ".txt"], TRUE, None),
           InputFile(PngName, TRUE, None) }

OutPng == [base |-> "out", ext |-> ".png"]

NoStats == [total |-> 0, success |-> 0, failed |-> 0, skipped |-> 0,
            files |-> << >>]

NoDir == [exists |-> FALSE, files |-> << >>]

\* no batch is running
BatchIdle ==
    /\ bpc = "idle"
    /\ dir = NoDir
    /\ imageFiles = << >>
    /\ bi = 0
    /\ stats = NoStats
    /\ attempts = << >>

NoArgv == [mode |-> None]

NoCliOptions == [mode |-> ""]

\* the command line is not in use
CliIdle ==
    /\ argv = NoArgv
    /\ cliOptions = NoCliOptions
    /\ cpc = "idle"
    /\ exitCode = -1
    /\ zips = << >>

\* a single removeBackground call on f, on a core built from o
InitCall(o, f) ==
    /\ opts = o
    /\ this = Constructor(o)
    /\ pc = "call"
    /\ file = f
    /\ outputPath = OutPng
    /\ image = NoRaster
    /\ passI = 0
    /\ pixelsChanged = << >>
    /\ personMask = NoRaster
    /\ textRegions = << >>
    /\ combinedMask = NoRaster
    /\ touched = {}
    /\ textMask = << >>
    /\ components = << >>
    /\ lab = NoLab
    /\ ret = "none"
    /\ events = << >>
    /\ writes = << >>
    /\ BatchIdle
    /\ CliIdle

InitColor ==
    \E o \in SinglePassOptions \cup MultiPassOptions :
        \E f \in ClassifierFiles : InitCall(o, f)

NextColor ==
    \/ RemoveBackground
    \/ ColorOpen
    \/ ColorPass
    \/ ColorScan
    \/ ColorWrite

SpecColor == InitColor /\ [][NextColor]_vars

(***************************************************************************)
(* Color-based text mask and RegionLabeler: detectTextByColor and          *)
(* findConnectedComponents.  A boolean mask is a function from the flat    *)
(* index y * width + x to BOOLEAN; a point is << x, y >>.                  *)
(***************************************************************************)
minRegionSize == 50

\* directions restricted to the four orthogonal neighbours
directions4 == << << -1, 0 >>, << 1, 0 >>, << 0, -1 >>, << 0, 1 >> >>

directions ==
    << << -1, 0 >>, << 1, 0 >>, << 0, -1 >>, << 0, 1 >>,
       << -1, -1 >>, << -1, 1 >>, << 1, -1 >>, << 1, 1 >> >>

\* a[idx] of a JavaScript array of booleans: undefined (falsy) out of range
At(a, idx) == idx \in DOMAIN a /\ a[idx]

\* InGrid without the test on nx: a neighbour index may wrap to the next row
InGridNoX(nx, ny, width, height) == ny >= 0 /\ ny < height

\* nx >= 0 && nx < width && ny >= 0 && ny < height
InGrid(nx, ny, width, height) ==
    nx >= 0 /\ nx < width /\ ny >= 0 /\ ny < height

\* the for loop over directions of bfs, from direction k on, at cell (x, y)
RECURSIVE NeighbourLoop(_, _, _, _, _, _, _, _)
NeighbourLoop(k, x, y, queue, visited, mask, width, height) ==
    IF k > Len(directions) THEN [queue |-> queue, visited |-> visited]
    ELSE LET nx == x + directions[k][1]
             ny == y + directions[k][2]
             nidx == ny * width + nx
         IN  IF InGrid(nx, ny, width, height) /\ ~At(visited, nidx)
                  /\ At(mask, nidx)
             THEN NeighbourLoop(k + 1, x, y, Append(queue, << nx, ny >>),
                                [visited EXCEPT ![nidx] = TRUE], mask, width,
                                height)
             ELSE NeighbourLoop(k + 1, x, y, queue, visited, mask, width,
                                height)

\* Math.min(...xs) and Math.max(...xs) of a non-empty list of points
MinOf(points, c) ==
    CHOOSE v \in { points[k][c] : k \in 1..Len(points) } :
        \A k \in 1..Len(points) : v <= points[k][c]
MaxOf(points, c) ==
    CHOOSE v \in { points[k][c] : k \in 1..Len(points) } :
        \A k \in 1..Len(points) : v >= points[k][c]

\* the size filter with no lower bound
KeepAnyComponent(component) == Len(component) >= 1

\* the size filter written with a strict comparison
KeepComponentStrict(component) == Len(component) > minRegionSize

\* component.length >= minRegionSize
KeepComponent(component) == Len(component) >= minRegionSize

\* the Region pushed for a component
RegionOfComponent(component) ==
    LET minX == MinOf(component, 1)
        maxX == MaxOf(component, 1)
        minY == MinOf(component, 2)
        maxY == MaxOf(component, 2)
    IN  [x |-> minX, y |-> minY, width |-> maxX - minX + 1,
         height |-> maxY - minY + 1, pixelCount |-> Len(component)]

\* a loop over this.textColors that gives up after the first color
MatchesFirstTextColor(p, textColors, textThreshold, k) ==
    /\ k <= Len(textColors)
    /\ DistanceLeq(
          calculateColorDistanceSq(RGB(p.r, p.g, p.b),
              RGB(textColors[k][1], textColors[k][2], textColors[k][3])),
          textThreshold)

\* the loop over this.textColors with its break, from color k on
RECURSIVE MatchesTextColor(_, _, _, _)
MatchesTextColor(p, textColors, textThreshold, k) ==
    IF k > Len(textColors) THEN FALSE
    ELSE IF DistanceLeq(
              calculateColorDistanceSq(RGB(p.r, p.g, p.b),
                  RGB(textColors[k][1], textColors[k][2], textColors[k][3])),
              textThreshold)
    THEN TRUE
    ELSE MatchesTextColor(p, textColors, textThreshold, k + 1)

\* the textMask detectTextByColor builds
BuildTextMask(img, textColors, textThreshold) ==
    [idx \in 0..(img.width * img.height - 1) |->
        MatchesTextColor(img.data[idx], textColors, textThreshold, 1)]

\* detectTextByColor(image) up to the call of findConnectedComponents, and
\* the first lines of findConnectedComponents (visited, regions)
BuildMask ==
    /\ pc = "label"
    /\ textMask' = BuildTextMask(image, this.textColors, this.textThreshold)
    /\ components' = << >>
    /\ textRegions' = << >>
    /\ lab' = [idx |-> 0, start |-> 0,
               visited |-> [idx \in 0..(image.width * image.height - 1)
                               |-> FALSE],
               queue |-> << >>, points |-> << >>]
    /\ events' = Append(events, "textmask")
    /\ pc' = "label.scan"
    /\ UNCHANGED << opts, this, file, outputPath, image, passI, pixelsChanged,
                    personMask, combinedMask, touched, ret, writes >>
    /\ UNCHANGED batchVars
    /\ UNCHANGED cliVars

\* the flat indices from lab.idx on at which the row-major loops start a bfs
Unlabelled ==
    { idx \in lab.idx..(image.width * image.height - 1) :
        At(textMask, idx) /\ ~At(lab.visited, idx) }

\* the row-major loops of findConnectedComponents up to the next cell with
\* mask[idx] && !visited[idx], where bfs(x, y) starts: the queue holds the
\* start cell, which is marked visited
ScanToComponent ==
    /\ pc = "label.scan"
    /\ Unlabelled # {}
    /\ LET idx == CHOOSE i \in Unlabelled : \A j \in Unlabelled : i <= j
           startX == idx % image.width
           startY == idx \div image.width
       IN  lab' = [idx |-> idx, start |-> idx,
                   visited |-> [lab.visited EXCEPT
                                   ![startY * image.width + startX] = TRUE],
                   queue |-> << << startX, startY >> >>,
                   points |-> << >>]
    /\ pc' = "label.bfs"
    /\ UNCHANGED << opts, this, file, outputPath, image, passI, pixelsChanged,
                    personMask, textRegions, combinedMask, touched, textMask,
                    components, ret, events, writes >>
    /\ UNCHANGED batchVars
    /\ UNCHANGED cliVars

\* one iteration of the while loop of bfs: queue.shift(), points.push and
\* the loop over directions
BfsStep ==
    /\ pc = "label.bfs"
    /\ Len(lab.queue) > 0
    /\ LET x == Head(lab.queue)[1]
           y == Head(lab.queue)[2]
           n == NeighbourLoop(1, x, y, Tail(lab.queue), lab.visited, textMask,
                              image.width, image.height)
       IN  lab' = [lab EXCEPT !.queue = n.queue, !.visited = n.visited,
                              !.points = Append(lab.points, << x, y >>)]
    /\ UNCHANGED << opts, this, file, outputPath, image, passI, pixelsChanged,
                    personMask, textRegions, combinedMask, touched, textMask,
                    components, pc, ret, events, writes >>
    /\ UNCHANGED batchVars
    /\ UNCHANGED cliVars

\* bfs returns its points; the size filter and regions.push
BfsReturn ==
    /\ pc = "label.bfs"
    /\ Len(lab.queue) = 0
    /\ components' = Append(components, lab.points)
    /\ textRegions' = IF KeepComponent(lab.points)
                      THEN Append(textRegions, RegionOfComponent(lab.points))
                      ELSE textRegions
    /\ lab' = [lab EXCEPT !.idx = lab.start + 1, !.points = << >>]
    /\ pc' = "label.scan"
    /\ UNCHANGED << opts, this, file, outputPath, image, passI, pixelsChanged,
                    personMask, combinedMask, touched, textMask, ret, events,
                    writes >>
    /\ UNCHANGED batchVars
    /\ UNCHANGED cliVars

\* the row-major loops end: findConnectedComponents and detectTextByColor
\* return regions
LabelReturn ==
    /\ pc = "label.scan"
    /\ Unlabelled = {}
    /\ lab' = [lab EXCEPT !.idx = image.width * image.height]
    /\ events' = Append(events, "label")
    /\ pc' = "labelled"
    /\ UNCHANGED << opts, this, file, outputPath, image, passI, pixelsChanged,
                    personMask, textRegions, combinedMask, touched, textMask,
                    components, ret, writes >>
    /\ UNCHANGED batchVars
    /\ UNCHANGED cliVars

(***************************************************************************)
(* The inputs of the labeler's specification: rasters painted from a       *)
(* family of shapes on a GridW x GridH grid.                               *)
(***************************************************************************)
Rect(x0, y0, w, h) ==
    { << x, y >> : x \in x0..(x0 + w - 1), y \in y0..(y0 + h - 1) }

Diagonal5 == { << k, k >> : k \in 0..4 }

ShapesA ==
    { Rect(0, 0, 10, 10), Rect(0, 0, 10, 5), Rect(1, 2, 7, 7),
      Rect(0, 0, 5, 5), Rect(0, 0, 1, 1), Rect(GridW - 1, 0, 1, 5),
      Rect(0, 0, GridW, GridH), Diagonal5, Rect(2, 3, 5, 2) }

ShapesB ==
    { {}, Rect(5, 5, 5, 5), Rect(6, 0, 4, 10), Rect(0, 1, 1, 5),
      Rect(6, 6, 4, 4), Rect(GridW - 1, GridH - 1, 1, 1) }

Holes == { {}, { << 0, 0 >> }, { << 4, 4 >> }, { << 9, 4 >> } }

GridShapes == { (a \cup b) \ h : a \in ShapesA, b \in ShapesB, h \in Holes }

White == Pixel(255, 255, 255, 255)
Black == Pixel(0, 0, 0, 255)

\* text paints at distance 0, 8.7 and 25 from white
TextPaints == { White, Pixel(250, 250, 250, 255), Pixel(230, 255, 255, 255) }

PaintedRaster(shape, paint) ==
    [width |-> GridW, height |-> GridH,
     data |-> [idx \in 0..(GridW * GridH - 1) |->
                  IF << idx % GridW, idx \div GridW >> \in shape
                  THEN paint ELSE Black]]

LabelOptions ==
    { [BaseOptions EXCEPT !.mode = "hybrid", !.textDetectionMode = "color",
                          !.textThreshold = tt] : tt \in { 0, 10 } }

\* a raster with the cells of shapeA in paintA, the other cells of shapeB
\* in paintB and the rest black
TwoPaintRaster(shapeA, paintA, shapeB, paintB) ==
    [width |-> GridW, height |-> GridH,
     data |-> [idx \in 0..(GridW * GridH - 1) |->
                  IF << idx % GridW, idx \div GridW >> \in shapeA THEN paintA
                  ELSE IF << idx % GridW, idx \div GridW >> \in shapeB
                  THEN paintB ELSE Black]]

RedText == Pixel(255, 0, 0, 255)

\* lists of two text colors, in both orders, and a list whose two colors
\* both match white text
TextColorLists ==
    { << << 255, 0, 0 >>, << 255, 255, 255 >> >>,
      << << 255, 255, 255 >>, << 255, 0, 0 >> >>,
      << << 250, 250, 250 >>, << 255, 255, 255 >> >>,
      << << 0, 0, 255 >> >> }

\* one paint on the shapes of the grid, with the default text color
OnePaintCases ==
    { << o, PaintedRaster(shape, paint) >> :
        o \in LabelOptions, shape \in GridShapes, paint \in TextPaints }

\* white text next to red text, with lists of text colors
TwoPaintCases ==
    { << [o EXCEPT !.textColors = Some(tcs)],
         TwoPaintRaster(a, White, b, paint) >> :
        o \in LabelOptions, tcs \in TextColorLists,
        a \in { Rect(0, 0, 5, 5), Rect(0, 0, 10, 5) },
        b \in { Rect(5, 0, 5, 5), Rect(0, 6, 10, 4), Rect(GridW - 1, 0, 1, 5) },
        paint \in { RedText, Pixel(250, 5, 0, 255) } }

InitLabel ==
    \E c \in OnePaintCases \cup TwoPaintCases :
        /\ opts = c[1]
        /\ this = Constructor(c[1])
        /\ pc = "label"
        /\ file = InputFile(PngName, TRUE, Some(c[2]))
        /\ outputPath = OutPng
        /\ image = c[2]
        /\ passI = 0
        /\ pixelsChanged = << >>
        /\ personMask = NoRaster
        /\ textRegions = << >>
        /\ combinedMask = NoRaster
        /\ touched = {}
        /\ textMask = << >>
        /\ components = << >>
        /\ lab = NoLab
        /\ ret = "none"
        /\ events = << >>
        /\ writes = << >>
        /\ BatchIdle
        /\ CliIdle

NextLabel ==
    \/ BuildMask
    \/ ScanToComponent
    \/ BfsStep
    \/ BfsReturn
    \/ LabelReturn

SpecLabel == InitLabel /\ [][NextLabel]_vars

(***************************************************************************)
(* removeBackgroundAI and removeBackgroundHybrid, step by step.  The AI    *)
(* collaborator either raises (file.ai is None) or returns a cutout of the *)
(* input's dimensions; the OCR collaborator either throws or returns       *)
(* words, each with or without a bbox << x0, y0, x1, y1 >>.                *)
(***************************************************************************)
\* removeBackgroundAI up to the writes: the input checks and the AI call
AICall ==
    /\ pc = "ai"
    /\ IF ~file.exists \/ ~isSupportedFormat(file.name) \/ ~IsSome(file.ai)
       THEN Fail /\ UNCHANGED << personMask, events >>
       ELSE /\ personMask' = Get(file.ai)
            /\ events' = Append(events, "ai")
            /\ pc' = "ai.write"
            /\ ret' = ret
    /\ UNCHANGED << opts, this, file, outputPath, image, passI, pixelsChanged,
                    textRegions, combinedMask, touched, textMask, components,
                    lab, writes >>
    /\ UNCHANGED batchVars
    /\ UNCHANGED cliVars

\* fs.mkdir, fs.writeFile(outputPath, buffer) and return true
AIWrite ==
    /\ pc = "ai.write"
    /\ writes' = Append(writes, [path |-> outputPath, raster |-> personMask])
    /\ events' = Append(events, "write")
    /\ pc' = "returned"
    /\ ret' = "true"
    /\ UNCHANGED << opts, this, file, outputPath, image, passI, pixelsChanged,
                    personMask, textRegions, combinedMask, touched, textMask,
                    components, lab >>
    /\ UNCHANGED batchVars
    /\ UNCHANGED cliVars

\* removeBackgroundHybrid, step 1: the input checks and the AI call
HybridAI ==
    /\ pc = "hybrid"
    /\ IF ~file.exists \/ ~isSupportedFormat(file.name) \/ ~IsSome(file.ai)
       THEN Fail /\ UNCHANGED events
       ELSE /\ events' = Append(events, "ai")
            /\ pc' = "hybrid.read"
            /\ ret' = ret
    /\ UNCHANGED << opts, this, file, outputPath, image, passI, pixelsChanged,
                    personMask, textRegions, combinedMask, touched, textMask,
                    components, lab, writes >>
    /\ UNCHANGED batchVars
    /\ UNCHANGED cliVars

\* Jimp.read(personMaskBuffer) and Jimp.read(inputPath)
HybridRead ==
    /\ pc = "hybrid.read"
    /\ IF IsSome(file.raster)
       THEN /\ personMask' = Get(file.ai)
            /\ image' = Get(file.raster)
            /\ events' = Append(events, "read")
            /\ pc' = "hybrid.detect"
            /\ ret' = ret
       ELSE Fail /\ UNCHANGED << personMask, image, events >>
    /\ UNCHANGED << opts, this, file, outputPath, passI, pixelsChanged,
                    textRegions, combinedMask, touched, textMask, components,
                    lab, writes >>
    /\ UNCHANGED batchVars
    /\ UNCHANGED cliVars

\* the Region pushed for a recognized word with a bbox
RegionOfWord(word) ==
    LET bbox == Get(word.bbox)
    IN  [x |-> bbox[1], y |-> bbox[2], width |-> bbox[3] - bbox[1],
         height |-> bbox[4] - bbox[2], text |-> word.text,
         confidence |-> word.confidence]

\* the loop over result.data.words, from word k on
RECURSIVE WordLoop(_, _, _)
WordLoop(k, words, regions) ==
    IF k > Len(words) THEN regions
    ELSE WordLoop(k + 1, words,
                  IF IsSome(words[k].bbox)
                  THEN Append(regions, RegionOfWord(words[k]))
                  ELSE regions)

\* detectTextRegions with no try / catch: the OCR error reaches the caller
detectTextRegionsNoCatch(ocr) ==
    [threw |-> ocr.throws,
     regions |-> IF ocr.throws THEN << >> ELSE WordLoop(1, ocr.words, << >>)]

\* detectTextRegions(imagePath): its catch returns [] when
\* Tesseract.recognize throws, so it never throws itself
detectTextRegions(ocr) ==
    [threw |-> FALSE,
     regions |-> IF ocr.throws THEN << >> ELSE WordLoop(1, ocr.words, << >>)]

\* step 2 with textDetectionMode 'ocr'; the call is inside the try block of
\* removeBackgroundHybrid
HybridDetectOCR ==
    /\ pc = "hybrid.detect"
    /\ this.textDetectionMode = "ocr"
    /\ LET result == detectTextRegions(file.ocr)
       IN  IF result.threw
           THEN Fail /\ UNCHANGED << textRegions, events >>
           ELSE /\ textRegions' = result.regions
                /\ events' = Append(events, "ocr")
                /\ pc' = "hybrid.combine"
                /\ ret' = ret
    /\ UNCHANGED << opts, this, file, outputPath, image, passI, pixelsChanged,
                    personMask, combinedMask, touched, textMask, components,
                    lab, writes >>
    /\ UNCHANGED batchVars
    /\ UNCHANGED cliVars

\* step 2 with textDetectionMode 'color': detectTextByColor(originalImage)
\* is entered
HybridDetectColor ==
    /\ pc = "hybrid.detect"
    /\ this.textDetectionMode = "color"
    /\ pc' = "label"
    /\ UNCHANGED << opts, this, file, outputPath, image, passI, pixelsChanged,
                    personMask, textRegions, combinedMask, touched, textMask,
                    components, lab, ret, events, writes >>
    /\ UNCHANGED batchVars
    /\ UNCHANGED cliVars

\* step 2 with any other textDetectionMode: textRegions stays []
HybridDetectNone ==
    /\ pc = "hybrid.detect"
    /\ this.textDetectionMode \notin { "ocr", "color" }
    /\ textRegions' = << >>
    /\ pc' = "hybrid.combine"
    /\ UNCHANGED << opts, this, file, outputPath, image, passI, pixelsChanged,
                    personMask, combinedMask, touched, textMask, components,
                    lab, ret, events, writes >>
    /\ UNCHANGED batchVars
    /\ UNCHANGED cliVars

\* the columns and rows of a region's loops with no clipping to the raster
PaddedColsUnclipped(region, padding, width) ==
    (region.x - padding)..(region.x + region.width + padding - 1)

\* px from Math.max(0, x - padding) while px < Math.min(width, x + w + padding)
PaddedCols(region, padding, width) ==
    Max2(0, region.x - padding)
        ..(Min2(width, region.x + region.width + padding) - 1)

\* py from Math.max(0, y - padding) while py < Math.min(height, y + h + padding)
PaddedRows(region, padding, height) ==
    Max2(0, region.y - padding)
        ..(Min2(height, region.y + region.height + padding) - 1)

\* the (px, py) the loops of one region visit
RegionCells(region, padding, width, height) ==
    PaddedCols(region, padding, width) \X PaddedRows(region, padding, height)

\* combinedMask.getPixelIndex(px, py) as a pixel index
GetPixelIndex(img, px, py) == py * img.width + px

\* a loop body that adds opacity to what the mask holds instead of setting it
CompositeRegionBlend(mask, original, region, padding, width, height) ==
    LET idxs == { GetPixelIndex(mask, c[1], c[2]) :
                    c \in RegionCells(region, padding, width, height) }
    IN  [mask EXCEPT !.data =
            [idx \in DOMAIN mask.data |->
                IF idx \in idxs /\ idx \in DOMAIN original.data
                THEN Pixel(original.data[idx].r, original.data[idx].g,
                           original.data[idx].b,
                           Min2(255, mask.data[idx].a + 128))
                ELSE mask.data[idx]]]

\* a loop body whose opacity depends on the region that writes the pixel
CompositeRegionStamped(mask, original, region, padding, width, height) ==
    LET idxs == { GetPixelIndex(mask, c[1], c[2]) :
                    c \in RegionCells(region, padding, width, height) }
    IN  [mask EXCEPT !.data =
            [idx \in DOMAIN mask.data |->
                IF idx \in idxs /\ idx \in DOMAIN original.data
                THEN Pixel(original.data[idx].r, original.data[idx].g,
                           original.data[idx].b, 255 - region.width)
                ELSE mask.data[idx]]]

\* the body of the loop over textRegions for one region
CompositeRegion(mask, original, region, padding, width, height) ==
    LET idxs == { GetPixelIndex(mask, c[1], c[2]) :
                    c \in RegionCells(region, padding, width, height) }
    IN  [mask EXCEPT !.data =
            [idx \in DOMAIN mask.data |->
                IF idx \in idxs /\ idx \in DOMAIN original.data
                THEN Pixel(original.data[idx].r, original.data[idx].g,
                           original.data[idx].b, 255)
                ELSE mask.data[idx]]]

\* the loop over textRegions, from region k on
RECURSIVE CompositeLoop(_, _, _, _, _, _, _)
CompositeLoop(k, mask, original, regions, padding, width, height) ==
    IF k > Len(regions) THEN mask
    ELSE CompositeLoop(k + 1,
             CompositeRegion(mask, original, regions[k], padding, width, height),
             original, regions, padding, width, height)

\* step 3: personMask.clone() and the loop over textRegions
HybridCombine ==
    /\ pc \in { "hybrid.combine", "labelled" }
    /\ combinedMask' = CompositeLoop(1, personMask, image, textRegions,
                                     this.textPadding, image.width,
                                     image.height)
    /\ touched' = UNION { RegionCells(textRegions[k], this.textPadding,
                                      image.width, image.height) :
                            k \in 1..Len(textRegions) }
    /\ events' = Append(events, "composite")
    /\ pc' = "hybrid.write"
    /\ UNCHANGED << opts, this, file, outputPath, image, passI, pixelsChanged,
                    personMask, textRegions, textMask, components, lab, ret,
                    writes >>
    /\ UNCHANGED batchVars
    /\ UNCHANGED cliVars

\* fs.mkdir, combinedMask.writeAsync(outputPath) and return true
HybridWrite ==
    /\ pc = "hybrid.write"
    /\ writes' = Append(writes, [path |-> outputPath, raster |-> combinedMask])
    /\ events' = Append(events, "write")
    /\ pc' = "returned"
    /\ ret' = "true"
    /\ UNCHANGED << opts, this, file, outputPath, image, passI, pixelsChanged,
                    personMask, textRegions, combinedMask, touched, textMask,
                    components, lab >>
    /\ UNCHANGED batchVars
    /\ UNCHANGED cliVars

(***************************************************************************)
(* The inputs of the AI and hybrid pipelines' specification.               *)
(***************************************************************************)
\* a source raster whose pixels all differ, with alpha 255 or 128
SourceRaster ==
    [width |-> HybW, height |-> HybH,
     data |-> [idx \in 0..(HybW * HybH - 1) |->
                  Pixel(10 + idx, 20, 30, IF idx % 2 = 0 THEN 255 ELSE 128)]]

\* the cutout of src with every pixel removed
Transparent(src) ==
    [src EXCEPT !.data = [idx \in DOMAIN src.data |-> Pixel(0, 0, 0, 0)]]

\* AI cutouts of a source: everything removed, the left half kept, and a
\* cutout that shares no pixel value with the source
Cutouts(src) ==
    { Transparent(src),
      [src EXCEPT !.data = [idx \in DOMAIN src.data |->
          IF 2 * (idx % src.width) < src.width
          THEN [src.data[idx] EXCEPT !.a = 255] ELSE Pixel(0, 0, 0, 0)]],
      [src EXCEPT !.data = [idx \in DOMAIN src.data |-> Pixel(1, 2, 3, 77)]] }

\* bboxes inside the raster, partly left of and above it, partly right of
\* and below it, empty, and with x1 < x0
Bboxes ==
    { << 1, 1, 2, 2 >>, << -2, -2, 1, 1 >>, << 4, 2, 9, 9 >>,
      << 2, 0, 2, 0 >>, << 3, 1, 1, 2 >> }

Words ==
    { [bbox |-> Some(b), text |-> "t", confidence |-> 90] : b \in Bboxes }
    \cup { [bbox |-> None, text |-> "t", confidence |-> 90] }

OcrOutcomes ==
    { [throws |-> TRUE, words |-> << >>] }
    \cup { [throws |-> FALSE, words |-> ws] :
             ws \in UNION { [1..n -> Words] : n \in 0..MaxWords } }

PipelineFile(name, exists, raster, ai, ocr) ==
    [name |-> name, exists |-> exists, raster |-> raster, ai |-> ai,
     ocr |-> ocr]

NoWords == [throws |-> FALSE, words |-> << >>]

\* the files on which a pipeline fails in its input checks or in Jimp.read
BrokenFiles ==
    { PipelineFile(PngName, FALSE, None, None, NoWords),
      PipelineFile([base |-> "a", ext |-> ".txt"], TRUE, Some(SourceRaster),
                   Some(CHOOSE c \in Cutouts(SourceRaster) : TRUE), NoWords),
      PipelineFile(PngName, TRUE, None,
                   Some(CHOOSE c \in Cutouts(SourceRaster) : TRUE), NoWords) }

AiOutcomes(src) == { None } \cup { Some(c) : c \in Cutouts(src) }

HybridOptions(detection, padding) ==
    [BaseOptions EXCEPT !.mode = "hybrid", !.textDetectionMode = detection,
                        !.textPadding = padding]

Paddings == { 0, 1, 2, -1 }

\* hybrid mode with OCR text detection
OcrCases ==
    { << HybridOptions(d, pad),
         PipelineFile([base |-> "a", ext |-> ".PNG"], TRUE, Some(SourceRaster),
                      ai, ocr) >> :
        d \in { "ocr" }, pad \in Paddings, ai \in AiOutcomes(SourceRaster),
        ocr \in OcrOutcomes }

\* hybrid mode with color text detection, on a small raster and on rasters
\* of the labeler's grid with a text block of 50 and of 49 cells
ColorCases ==
    { << HybridOptions("color", pad),
         PipelineFile(PngName, TRUE, Some(src), Some(Transparent(src)),
                      NoWords) >> :
        pad \in Paddings,
        src \in { PaintedRaster(Rect(0, 0, 10, 5), White),
                  PaintedRaster(Rect(1, 2, 7, 7), White) } }
    \cup { << HybridOptions("color", pad),
              PipelineFile(PngName, TRUE, Some(SourceRaster), ai, NoWords) >> :
             pad \in Paddings, ai \in AiOutcomes(SourceRaster) }

\* hybrid mode with the default and with an unknown text detection mode, ai
\* mode, and the broken files in both modes
OtherCases ==
    { << HybridOptions(d, 1),
         PipelineFile(PngName, TRUE, Some(SourceRaster), ai, ocr) >> :
        d \in { "", "none" }, ai \in AiOutcomes(SourceRaster),
        ocr \in { [throws |-> TRUE, words |-> << >>], NoWords } }
    \cup { << [BaseOptions EXCEPT !.mode = m],
              PipelineFile(PngName, TRUE, Some(SourceRaster), ai, NoWords) >> :
             m \in { "ai", "" }, ai \in AiOutcomes(SourceRaster) }
    \cup { << [BaseOptions EXCEPT !.mode = m], f >> :
             m \in { "ai", "hybrid" }, f \in BrokenFiles }

InitHybrid ==
    \E c \in OcrCases \cup ColorCases \cup OtherCases : InitCall(c[1], c[2])

NextHybrid ==
    \/ RemoveBackground
    \/ AICall
    \/ AIWrite
    \/ HybridAI
    \/ HybridRead
    \/ HybridDetectOCR
    \/ HybridDetectColor
    \/ HybridDetectNone
    \/ BuildMask
    \/ ScanToComponent
    \/ BfsStep
    \/ BfsReturn
    \/ LabelReturn
    \/ HybridCombine
    \/ HybridWrite

SpecHybrid == InitHybrid /\ [][NextHybrid]_vars

(***************************************************************************)
(* processBatch, step by step.  The input directory is a record            *)
(* [exists, files]; files is what fs.readdir lists, each entry carrying    *)
(* the file's name and what reading it, the AI collaborator and the OCR    *)
(* collaborator do on it.                                                  *)
(***************************************************************************)
\* path.basename(file, path.extname(file)) + '.png'
BatchOutputName(name) == [base |-> name.base, ext |-> ".png"]

\* processBatch up to the loop: fileExists(inputDir), fs.readdir, the filter
\* on isSupportedFormat, the early return on an empty list and stats.total
BatchStart ==
    /\ bpc = "start"
    /\ IF ~dir.exists
       THEN /\ bpc' = "thrown"
            /\ UNCHANGED << imageFiles, stats >>
       ELSE LET supported == SelectSeq(dir.files,
                                 LAMBDA f : isSupportedFormat(f.name))
            IN  /\ imageFiles' = supported
                /\ IF Len(supported) = 0
                   THEN /\ bpc' = "returned"
                        /\ UNCHANGED stats
                   ELSE /\ bpc' = "loop"
                        /\ stats' = [stats EXCEPT !.total = Len(supported)]
    /\ bi' = 0
    /\ UNCHANGED << opts, this, dir, attempts, writes >>
    /\ UNCHANGED callVars
    /\ UNCHANGED cliVars

\* the head of one loop iteration: this.removeBackground(inputPath,
\* outputPath, format) is called on imageFiles[i]
BatchCall ==
    /\ bpc = "loop"
    /\ bi < Len(imageFiles)
    /\ EnterCall(imageFiles[bi + 1], BatchOutputName(imageFiles[bi + 1].name))
    /\ attempts' = Append(attempts, imageFiles[bi + 1].name)
    /\ bpc' = "await"
    /\ UNCHANGED << opts, this, writes, dir, imageFiles, bi, stats >>
    /\ UNCHANGED cliVars

\* a loop body that gives up on the first image that fails
BatchCollectStopsOnFailure ==
    /\ bpc = "await"
    /\ pc = "returned"
    /\ IF ret = "true"
       THEN /\ stats' = [stats EXCEPT
                   !.success = @ + 1,
                   !.files = Append(@, [input |-> file.name,
                                        output |-> outputPath,
                                        status |-> "success"])]
            /\ bi' = bi + 1
            /\ bpc' = "loop"
       ELSE /\ stats' = [stats EXCEPT
                   !.failed = @ + 1,
                   !.files = Append(@, [input |-> file.name,
                                        status |-> "failed"])]
            /\ bi' = Len(imageFiles)
            /\ bpc' = "loop"
    /\ pc' = "idle"
    /\ UNCHANGED << opts, this, file, outputPath, image, passI, pixelsChanged,
                    personMask, textRegions, combinedMask, touched, textMask,
                    components, lab, ret, events, writes, dir, imageFiles,
                    attempts >>
    /\ UNCHANGED cliVars

\* a loop body that counts a failed image without listing it in stats.files
BatchCollectUnlistedFailure ==
    /\ bpc = "await"
    /\ pc = "returned"
    /\ IF ret = "throw"
       THEN /\ bpc' = "thrown"
            /\ UNCHANGED << stats, bi >>
       ELSE IF ret = "true"
       THEN /\ stats' = [stats EXCEPT
                   !.success = @ + 1,
                   !.files = Append(@, [input |-> file.name,
                                        output |-> outputPath,
                                        status |-> "success"])]
            /\ bi' = bi + 1
            /\ bpc' = "loop"
       ELSE /\ stats' = [stats EXCEPT !.failed = @ + 1]
            /\ bi' = bi + 1
            /\ bpc' = "loop"
    /\ pc' = "idle"
    /\ UNCHANGED << opts, this, file, outputPath, image, passI, pixelsChanged,
                    personMask, textRegions, combinedMask, touched, textMask,
                    components, lab, ret, events, writes, dir, imageFiles,
                    attempts >>
    /\ UNCHANGED cliVars

\* the rest of the loop iteration once removeBackground has settled: the
\* two branches on success and i++; an exception of removeBackground
\* reaches the catch of processBatch, which rethrows it
BatchCollect ==
    /\ bpc = "await"
    /\ pc = "returned"
    /\ IF ret = "throw"
       THEN /\ bpc' = "thrown"
            /\ UNCHANGED << stats, bi >>
       ELSE IF ret = "true"
       THEN /\ stats' = [stats EXCEPT
                   !.success = @ + 1,
                   !.files = Append(@, [input |-> file.name,
                                        output |-> outputPath,
                                        status |-> "success"])]
            /\ bi' = bi + 1
            /\ bpc' = "loop"
       ELSE /\ stats' = [stats EXCEPT
                   !.failed = @ + 1,
                   !.files = Append(@, [input |-> file.name,
                                        status |-> "failed"])]
            /\ bi' = bi + 1
            /\ bpc' = "loop"
    /\ pc' = "idle"
    /\ UNCHANGED << opts, this, file, outputPath, image, passI, pixelsChanged,
                    personMask, textRegions, combinedMask, touched, textMask,
                    components, lab, ret, events, writes, dir, imageFiles,
                    attempts >>
    /\ UNCHANGED cliVars

\* the loop condition fails: return stats
BatchReturn ==
    /\ bpc = "loop"
    /\ bi >= Len(imageFiles)
    /\ bpc' = "returned"
    /\ UNCHANGED << opts, this, writes, dir, imageFiles, bi, stats, attempts >>
    /\ UNCHANGED callVars
    /\ UNCHANGED cliVars

(***************************************************************************)
(* The inputs of the batch's specification: directories of up to MaxFiles  *)
(* entries, each image sound, undecodable, or refused by the AI            *)
(* collaborator.                                                           *)
(***************************************************************************)
BatchNames ==
    { [base |-> "a", ext |-> ".jpg"], [base |-> "a", ext |-> ".png"],
      [base |-> "b", ext |-> ".PNG"], [base |-> "c", ext |-> ".txt"] }

\* the 2 x 1 raster behind a name: one pixel near Blue, one Red
BatchRaster(name) ==
    [width |-> 2, height |-> 1,
     data |-> [idx \in 0..1 |->
                 IF idx = 0
                 THEN Pixel(0, 0, IF name.base = "a" THEN 255 ELSE 250, 255)
                 ELSE Pixel(255, 0, 0, IF name.ext = ".jpg" THEN 255 ELSE 200)]]

BatchOcr ==
    [throws |-> FALSE,
     words |-> << [bbox |-> Some(<< 1, 0, 2, 1 >>), text |-> "t",
                   confidence |-> 90] >>]

BatchConditions == { "ok", "corrupt", "aifail" }

\* a directory entry: a corrupt file can be decoded by neither Jimp nor the
\* AI collaborator
BatchFile(name, condition) ==
    PipelineFile(name, TRUE,
        IF condition = "corrupt" THEN None ELSE Some(BatchRaster(name)),
        IF condition = "ok"
        THEN Some([BatchRaster(name) EXCEPT !.data[1] = Pixel(0, 0, 0, 0)])
        ELSE None,
        BatchOcr)

\* the listings: sequences of distinct names, each with a condition
BatchListings ==
    UNION { { l \in [1..n -> { BatchFile(nm, c) : nm \in BatchNames,
                                                 c \in BatchConditions }] :
                /\ \A j, k \in 1..n : j # k => l[j].name # l[k].name
                /\ \A j \in 1..n :
                     ~isSupportedFormat(l[j].name) => IsSome(l[j].ai) } :
            n \in 0..MaxFiles }

BatchOptions ==
    { [BaseOptions EXCEPT !.mode = "ai"],
      [BaseOptions EXCEPT !.mode = "", !.targetColor = Some(Blue)],
      [BaseOptions EXCEPT !.mode = "color", !.targetColor = Some(Blue),
                          !.threshold = 10],
      [BaseOptions EXCEPT !.mode = "hybrid", !.textPadding = 1],
      [BaseOptions EXCEPT !.mode = "colour", !.targetColor = Some(Blue)] }

NoFile == PipelineFile(PngName, FALSE, None, None, NoWords)

InitBatch ==
    /\ opts \in BatchOptions
    /\ this = Constructor(opts)
    /\ dir \in { [exists |-> TRUE, files |-> l] : l \in BatchListings }
               \cup { NoDir }
    /\ bpc = "start"
    /\ imageFiles = << >>
    /\ bi = 0
    /\ stats = NoStats
    /\ attempts = << >>
    /\ writes = << >>
    /\ pc = "idle"
    /\ file = NoFile
    /\ outputPath = OutPng
    /\ image = NoRaster
    /\ passI = 0
    /\ pixelsChanged = << >>
    /\ personMask = NoRaster
    /\ textRegions = << >>
    /\ combinedMask = NoRaster
    /\ touched = {}
    /\ textMask = << >>
    /\ components = << >>
    /\ lab = NoLab
    /\ ret = "none"
    /\ events = << >>
    /\ CliIdle

NextBatch ==
    \/ BatchStart
    \/ BatchCall
    \/ BatchCollect
    \/ BatchReturn
    \/ RemoveBackground
    \/ AICall
    \/ AIWrite
    \/ ColorOpen
    \/ ColorScan
    \/ ColorWrite
    \/ HybridAI
    \/ HybridRead
    \/ HybridDetectOCR
    \/ HybridCombine
    \/ HybridWrite

SpecBatch == InitBatch /\ [][NextBatch]_vars

(***************************************************************************)
(* The command line (bg-remover-cli.js): parseArgs, main, processSingleFile *)
(* and processBatch.  argv holds, per flag, the flag's argument or None     *)
(* when the flag is not given; a string that the code splits is held as    *)
(* the sequence of its pieces.  A JavaScript number that may be NaN is an  *)
(* optional integer, None being NaN.                                       *)
(***************************************************************************)
\* parseInt(token, 10) on the tokens of the model: NaN for a non-numeric one
ParseInt(token) ==
    CASE token = "-5" -> Some(-5)
      [] token = "0" -> Some(0)
      [] token = "3" -> Some(3)
      [] token = "10" -> Some(10)
      [] token = "255" -> Some(255)
      [] token = "300" -> Some(300)
      [] token = "441" -> Some(441)
      [] token = "500" -> Some(500)
      [] OTHER -> None

\* parts.some(v => isNaN(v) || v < 0 || v > 255)
BadChannel(parts) ==
    \E k \in 1..Len(parts) :
        ~IsSome(parts[k]) \/ Get(parts[k]) < 0 \/ Get(parts[k]) > 255

\* parseRGBColor(rgbString), rgbString given as its pieces between commas
parseRGBColor(pieces) ==
    LET parts == [k \in 1..Len(pieces) |-> ParseInt(pieces[k])]
    IN  IF Len(parts) # 3 THEN None
        ELSE IF BadChannel(parts) THEN None
        ELSE Some(RGB(Get(parts[1]), Get(parts[2]), Get(parts[3])))

\* one entry of options.textColors.split(';'): its parts, and whether the
\* entry makes parseArgs exit
TextColorParts(pieces) == [k \in 1..Len(pieces) |-> ParseInt(pieces[k])]

BadTextColor(pieces) ==
    Len(pieces) # 3 \/ BadChannel(TextColorParts(pieces))

\* the value of a flag's argument, or the default parseArgs starts from
FlagOr(arg, default) == IF IsSome(arg) THEN Get(arg) ELSE default

\* the options object parseArgs builds in its loop over the arguments
ArgsLoop(a) ==
    [ format            |-> FlagOr(a.format, "png"),
      zip               |-> a.zip,
      help              |-> a.help,
      singleFile        |-> a.singleFile,
      mode              |-> FlagOr(a.mode, "ai"),
      targetColor       |-> a.targetColor,
      threshold         |-> IF IsSome(a.threshold)
                            THEN ParseInt(Get(a.threshold)) ELSE Some(50),
      feather           |-> IF IsSome(a.feather)
                            THEN ParseInt(Get(a.feather)) ELSE Some(0),
      textPadding       |-> IF IsSome(a.textPadding)
                            THEN ParseInt(Get(a.textPadding)) ELSE Some(5),
      textDetectionMode |-> FlagOr(a.textDetectionMode, "color"),
      textColors        |-> FlagOr(a.textColors,
                                   << << "255", "255", "255" >> >>),
      textThreshold     |-> IF IsSome(a.textThreshold)
                            THEN ParseInt(Get(a.textThreshold)) ELSE Some(60) ]

\* the validations of parseArgs, each ending in process.exit(1)
ArgsRejected(o) ==
    \/ o.mode \notin { "ai", "color", "hybrid" }
    \/ o.mode = "color" /\ ~IsSome(o.targetColor)
    \/ IsSome(o.targetColor) /\ ~IsSome(parseRGBColor(Get(o.targetColor)))
    \/ o.format \notin { "png", "webp" }
    \/ \E k \in 1..Len(o.textColors) : BadTextColor(o.textColors[k])

\* the options parseArgs returns: targetColorParsed and textColorsParsed
\* are added to the loop's object
ParsedOptions(o) ==
    [ format            |-> o.format,
      zip               |-> o.zip,
      help              |-> o.help,
      singleFile        |-> o.singleFile,
      mode              |-> o.mode,
      targetColor       |-> o.targetColor,
      targetColorParsed |-> IF IsSome(o.targetColor)
                            THEN parseRGBColor(Get(o.targetColor)) ELSE None,
      threshold         |-> o.threshold,
      feather           |-> o.feather,
      textPadding       |-> o.textPadding,
      textDetectionMode |-> o.textDetectionMode,
      textColors        |-> o.textColors,
      textColorsParsed  |->
          [k \in 1..Len(o.textColors) |->
              [c \in 1..3 |-> Get(TextColorParts(o.textColors[k])[c])]],
      textThreshold     |-> o.textThreshold ]

\* a number handed to the constructor: NaN is falsy under ||, as 0 is, and
\* is written 0
NumberOption(n) == IF IsSome(n) THEN Get(n) ELSE 0

\* the options main hands to new BackgroundRemoverCore
CoreOptions(o) ==
    [ mode              |-> o.mode,
      targetColor       |-> o.targetColorParsed,
      threshold         |-> NumberOption(o.threshold),
      feather           |-> NumberOption(o.feather),
      colorPasses       |-> None,
      textPadding       |-> NumberOption(o.textPadding),
      textDetectionMode |-> o.textDetectionMode,
      textColors        |-> IF Len(o.textColorsParsed) > 0
                            THEN Some(o.textColorsParsed)
                            ELSE Some(DefaultTextColors),
      textThreshold     |-> NumberOption(o.textThreshold) ]

\* processSingleFile's output name: basename + '_no_bg.png'
SingleOutputName(name) ==
    [base |-> name.base, suffix |-> "_no_bg", ext |-> ".png"]

\* process.exit(code)
Exit(code) ==
    /\ cpc' = "exited"
    /\ exitCode' = code

\* parseArgs()
ParseArgs ==
    /\ cpc = "parse"
    /\ LET o == ArgsLoop(argv)
       IN  IF ArgsRejected(o)
           THEN Exit(1) /\ UNCHANGED cliOptions
           ELSE /\ cliOptions' = ParsedOptions(o)
                /\ cpc' = "main"
                /\ UNCHANGED exitCode
    /\ UNCHANGED << argv, zips, opts, this, writes >>
    /\ UNCHANGED callVars
    /\ UNCHANGED batchVars

\* main() after parseArgs: the help exit, new BackgroundRemoverCore, and the
\* call of processSingleFile or processBatch up to the core's entry
Main ==
    /\ cpc = "main"
    /\ IF cliOptions.help
       THEN /\ Exit(0)
            /\ UNCHANGED << opts, this, bpc >>
            /\ UNCHANGED callVars
       ELSE /\ opts' = CoreOptions(cliOptions)
            /\ this' = Constructor(CoreOptions(cliOptions))
            /\ UNCHANGED exitCode
            /\ IF IsSome(cliOptions.singleFile)
               THEN /\ EnterCall(Get(cliOptions.singleFile),
                         SingleOutputName(Get(cliOptions.singleFile).name))
                    /\ cpc' = "single"
                    /\ UNCHANGED bpc
               ELSE /\ bpc' = "start"
                    /\ cpc' = "batch"
                    /\ UNCHANGED callVars
    /\ UNCHANGED << argv, cliOptions, zips, writes, dir, imageFiles, bi, stats,
                    attempts >>

\* processSingleFile once core.removeBackground has settled, and main's
\* process.exit(success ? 0 : 1); an exception is caught and gives false
SingleFileReturn ==
    /\ cpc = "single"
    /\ pc = "returned"
    /\ Exit(IF ret = "true" THEN 0 ELSE 1)
    /\ UNCHANGED << argv, cliOptions, zips, opts, this, writes >>
    /\ UNCHANGED callVars
    /\ UNCHANGED batchVars

\* a processBatch of the CLI that takes every settled batch that did not
\* throw for a success
CliBatchReturnAnyStats ==
    /\ cpc = "batch"
    /\ bpc \in { "returned", "thrown" }
    /\ IF bpc = "thrown"
       THEN Exit(1)
       ELSE IF cliOptions.zip /\ stats.success > 0
       THEN cpc' = "zip" /\ UNCHANGED exitCode
       ELSE Exit(0)
    /\ UNCHANGED << argv, cliOptions, zips, opts, this, writes >>
    /\ UNCHANGED callVars
    /\ UNCHANGED batchVars

\* the CLI's processBatch once core.processBatch has settled: a rejection
\* and stats.success === 0 give false; otherwise the ZIP is created when
\* requested
CliBatchReturn ==
    /\ cpc = "batch"
    /\ bpc \in { "returned", "thrown" }
    /\ IF bpc = "thrown" \/ stats.success = 0
       THEN Exit(1)
       ELSE IF cliOptions.zip /\ stats.success > 0
       THEN cpc' = "zip" /\ UNCHANGED exitCode
       ELSE Exit(0)
    /\ UNCHANGED << argv, cliOptions, zips, opts, this, writes >>
    /\ UNCHANGED callVars
    /\ UNCHANGED batchVars

\* core.createZip(outputDir, zipPath): it resolves, or rejects and the
\* CLI's catch gives false
CreateZip ==
    /\ cpc = "zip"
    /\ IF argv.zipFails
       THEN Exit(1) /\ UNCHANGED zips
       ELSE Exit(0) /\ zips' = Append(zips, writes)
    /\ UNCHANGED << argv, cliOptions, opts, this, writes >>
    /\ UNCHANGED callVars
    /\ UNCHANGED batchVars

(***************************************************************************)
(* The inputs of the command line's specification.                         *)
(***************************************************************************)
\* a 2 x 1 raster: one pixel at distance 5 from blue, one white
CliRaster ==
    [width |-> 2, height |-> 1,
     data |-> [idx \in 0..1 |->
                 IF idx = 0 THEN Pixel(3, 4, 255, 255) ELSE White]]

CliFile(name, sound) ==
    PipelineFile(name, TRUE,
        IF sound THEN Some(CliRaster) ELSE None,
        IF sound THEN Some(Transparent(CliRaster)) ELSE None,
        BatchOcr)

CliFiles ==
    { CliFile([base |-> "a", ext |-> ".jpg"], TRUE),
      CliFile([base |-> "b", ext |-> ".png"], FALSE) }

CliDirs ==
    { NoDir,
      [exists |-> TRUE, files |-> << >>],
      [exists |-> TRUE,
       files |-> << CliFile([base |-> "b", ext |-> ".png"], FALSE) >>],
      [exists |-> TRUE,
       files |-> << CliFile([base |-> "b", ext |-> ".png"], FALSE),
                    CliFile([base |-> "a", ext |-> ".jpg"], TRUE) >>] }

BaseArgv ==
    [ help |-> FALSE, zip |-> FALSE, zipFails |-> FALSE, mode |-> None,
      targetColor |-> None, threshold |-> None, feather |-> None,
      format |-> None, singleFile |-> None, textPadding |-> None,
      textDetectionMode |-> None, textColors |-> None,
      textThreshold |-> None ]

ThresholdTokens == { "-5", "0", "10", "441", "500", "abc" }

\* color mode: the target color, the threshold and the feather vary
ColorArgvs ==
    { [BaseArgv EXCEPT !.mode = Some("color"), !.targetColor = tc,
                       !.threshold = th, !.feather = fe, !.singleFile = sf] :
        tc \in { None, Some(<< "0", "0", "255" >>),
                 Some(<< "0", "0", "300" >>), Some(<< "0", "abc", "255" >>),
                 Some(<< "0", "0" >>) },
        th \in { None } \cup { Some(t) : t \in ThresholdTokens },
        fe \in { None, Some("-5"), Some("3") },
        sf \in { None } \cup { Some(f) : f \in CliFiles } }

\* the mode, the format, --help and --zip vary
ModeArgvs ==
    { [BaseArgv EXCEPT !.mode = m, !.format = fmt, !.help = h, !.zip = z,
                       !.zipFails = zf, !.singleFile = sf] :
        m \in { None, Some("ai"), Some("hybrid"), Some("colour") },
        fmt \in { None, Some("webp"), Some("jpg") },
        h \in BOOLEAN, z \in BOOLEAN, zf \in BOOLEAN,
        sf \in { None } \cup { Some(f) : f \in CliFiles } }

\* hybrid mode: the text options vary
TextArgvs ==
    { [BaseArgv EXCEPT !.mode = Some("hybrid"), !.textDetectionMode = td,
                       !.textColors = tcs, !.textPadding = tp,
                       !.textThreshold = tt, !.singleFile = sf] :
        td \in { None, Some("ocr"), Some("none") },
        tcs \in { None, Some(<< << "255", "0", "0" >>,
                                << "255", "255", "255" >> >>),
                  Some(<< << "255", "0" >> >>) },
        tp \in { None, Some("0"), Some("abc") },
        tt \in { None, Some("10") },
        sf \in { Some(f) : f \in CliFiles } }

InitCli ==
    /\ argv \in ColorArgvs \cup ModeArgvs \cup TextArgvs
    /\ dir \in CliDirs
    /\ cliOptions = NoCliOptions
    /\ cpc = "parse"
    /\ exitCode = -1
    /\ zips = << >>
    /\ opts = BaseOptions
    /\ this = Constructor(BaseOptions)
    /\ bpc = "idle"
    /\ imageFiles = << >>
    /\ bi = 0
    /\ stats = NoStats
    /\ attempts = << >>
    /\ writes = << >>
    /\ pc = "idle"
    /\ file = NoFile
    /\ outputPath = OutPng
    /\ image = NoRaster
    /\ passI = 0
    /\ pixelsChanged = << >>
    /\ personMask = NoRaster
    /\ textRegions = << >>
    /\ combinedMask = NoRaster
    /\ touched = {}
    /\ textMask = << >>
    /\ components = << >>
    /\ lab = NoLab
    /\ ret = "none"
    /\ events = << >>

\* the multi-pass loop is absent: main never passes colorPasses
NextCli ==
    \/ ParseArgs
    \/ Main
    \/ SingleFileReturn
    \/ CliBatchReturn
    \/ CreateZip
    \/ BatchStart
    \/ BatchCall
    \/ BatchCollect
    \/ BatchReturn
    \/ RemoveBackground
    \/ AICall
    \/ AIWrite
    \/ ColorOpen
    \/ ColorScan
    \/ ColorWrite
    \/ HybridAI
    \/ HybridRead
    \/ HybridDetectOCR
    \/ HybridDetectColor
    \/ HybridDetectNone
    \/ BuildMask
    \/ ScanToComponent
    \/ BfsStep
    \/ BfsReturn
    \/ LabelReturn
    \/ HybridCombine
    \/ HybridWrite

SpecCli == InitCli /\ [][NextCli]_vars

(***************************************************************************)
(* removeBackground as a whole: single calls in every mode, on the inputs  *)
(* of the color classifier and of the AI and hybrid pipelines.             *)
(***************************************************************************)
\* a file every collaborator can work on, for a core in color mode and for
\* cores whose mode is none of the three the router knows
RouteCases ==
    { << [BaseOptions EXCEPT !.mode = m, !.targetColor = Some(Blue),
                             !.threshold = 10],
         PipelineFile(PngName, TRUE, Some(SourceRaster),
                      Some(Transparent(SourceRaster)), ocr) >> :
        m \in { "color", "AI", "colour", "auto" },
        ocr \in { o \in OcrOutcomes : Len(o.words) <= 1 } }

InitRoute ==
    \/ InitColor
    \/ InitHybrid
    \/ \E c \in RouteCases : InitCall(c[1], c[2])

NextRoute ==
    \/ RemoveBackground
    \/ AICall
    \/ AIWrite
    \/ ColorOpen
    \/ ColorPass
    \/ ColorScan
    \/ ColorWrite
    \/ HybridAI
    \/ HybridRead
    \/ HybridDetectOCR
    \/ HybridDetectColor
    \/ HybridDetectNone
    \/ BuildMask
    \/ ScanToComponent
    \/ BfsStep
    \/ BfsReturn
    \/ LabelReturn
    \/ HybridCombine
    \/ HybridWrite

SpecRoute == InitRoute /\ [][NextRoute]_vars



(***************************************************************************)
(* Properties of the color classifier (checked under SpecColor).           *)
(***************************************************************************)
\* the raster Jimp.read decoded for the current call
Decoded == Get(file.raster)

\* the single-pass scan has run in the current call
SinglePassRan ==
    /\ pc \in { "color.write", "returned" }
    /\ Len(events) >= 2
    /\ events[2] = "classify"
    /\ ~(IsSome(this.colorPasses) /\ Len(Get(this.colorPasses)) > 0)

\* the multi-pass loop is running or has run in the current call
MultiPassRunning ==
    /\ pc \in { "color.pass", "color.write", "returned" }
    /\ Len(events) >= 1
    /\ events[1] = "read"
    /\ IsSome(this.colorPasses) /\ Len(Get(this.colorPasses)) > 0

\* the squared RGB distance of pixel p to color c, written out
SqDist(p, c) ==
    (p.r - c.r) * (p.r - c.r) + (p.g - c.g) * (p.g - c.g)
        + (p.b - c.b) * (p.b - c.b)

\* C1: after the single-pass scan with feather = 0 every pixel's alpha is 0
\* when its distance to the target color is <= the threshold of the scan and
\* its input alpha otherwise; the written raster is that raster.
C1_SinglePassNoFeather ==
    (SinglePassRan /\ this.feather = 0) =>
        /\ \A idx \in DOMAIN Decoded.data :
              image.data[idx].a =
                 IF /\ this.threshold >= 0
                    /\ SqDist(Decoded.data[idx], Get(this.targetColor))
                          <= this.threshold * this.threshold
                 THEN 0
                 ELSE Decoded.data[idx].a
        /\ pc = "returned" => writes[Len(writes)].raster = image

\* C1 witness: a finished feather-free scan that removed an opaque pixel
\* within the threshold and kept a visible pixel beyond it
C1_Witness ==
    /\ SinglePassRan /\ this.feather = 0 /\ pc = "returned"
    /\ \E idx \in DOMAIN Decoded.data :
          /\ Decoded.data[idx].a = 255
          /\ SqDist(Decoded.data[idx], Get(this.targetColor))
                = this.threshold * this.threshold
          /\ image.data[idx].a = 0
    /\ \E idx \in DOMAIN Decoded.data :
          /\ SqDist(Decoded.data[idx], Get(this.targetColor))
                > this.threshold * this.threshold
          /\ image.data[idx].a = 200

\* C2: in the multi-pass loop a pixel whose alpha is 0 is left untouched by
\* every later pass, and the raster written is the raster the loop ended with.
C2_MultiPassMonotone ==
    [][ /\ (MultiPassRunning /\ pc = "color.pass") =>
              \A idx \in DOMAIN image.data :
                  image.data[idx].a = 0 => image'.data[idx] = image.data[idx]
        /\ (MultiPassRunning /\ pc = "color.write") =>
              /\ writes' = Append(writes, [path |-> outputPath,
                                            raster |-> image])
              /\ \A idx \in DOMAIN Decoded.data :
                    Decoded.data[idx].a = 0 => image.data[idx].a = 0
      ]_vars

\* C2 witness: two passes have run; the first made an opaque pixel
\* transparent, the second does not match that pixel, and it is still
\* transparent in the written raster
C2_Witness ==
    /\ MultiPassRunning /\ pc = "returned" /\ passI = 2
    /\ \E idx \in DOMAIN Decoded.data :
          LET p == Decoded.data[idx]
              passes == Get(this.colorPasses)
          IN  /\ p.a = 255
              /\ SqDist(p, passes[1].color)
                    <= passes[1].threshold * passes[1].threshold
              /\ SqDist(p, passes[2].color)
                    > passes[2].threshold * passes[2].threshold
              /\ writes[Len(writes)].raster.data[idx].a = 0

(***************************************************************************)
(* Properties of the labeler (checked under SpecLabel).  The components    *)
(* the claims speak of are defined on the coordinates, apart from the      *)
(* code's flat-index traversal.                                            *)
(***************************************************************************)
\* the true cells of the mask handed to findConnectedComponents
TrueCells ==
    { << idx % image.width, idx \div image.width >> :
        idx \in { i \in DOMAIN textMask : textMask[i] } }

\* the true cells that differ from a cell of S by at most 1 in x and in y
Neighbours8(S) ==
    { << c[1] + d[1], c[2] + d[2] >> : c \in S, d \in (-1..1) \X (-1..1) }
        \cap TrueCells

\* the true cells joined to a cell of S by a path of true cells whose
\* consecutive cells differ by at most 1 in x and in y
RECURSIVE Closure8(_)
Closure8(S) ==
    LET n == S \cup Neighbours8(S)
    IN  IF n = S THEN S ELSE Closure8(n)

\* the first cell of T in row-major order
FirstCell(T) ==
    CHOOSE c \in T :
        \A d \in T : c[2] < d[2] \/ (c[2] = d[2] /\ c[1] <= d[1])

\* the 8-connected components of the cells T, ordered by their first cell
RECURSIVE ComponentsOf(_)
ComponentsOf(T) ==
    IF T = {} THEN << >>
    ELSE LET C == Closure8({ FirstCell(T) })
         IN  << C >> \o ComponentsOf(T \ C)

IsBig(C) == Cardinality(C) >= 50

\* the bounding Region of a set of cells
BoundingRegion(C) ==
    LET xs == { c[1] : c \in C }
        ys == { c[2] : c \in C }
        minX == CHOOSE v \in xs : \A w \in xs : v <= w
        maxX == CHOOSE v \in xs : \A w \in xs : v >= w
        minY == CHOOSE v \in ys : \A w \in ys : v <= w
        maxY == CHOOSE v \in ys : \A w \in ys : v >= w
    IN  [x |-> minX, y |-> minY, width |-> maxX - minX + 1,
         height |-> maxY - minY + 1, pixelCount |-> Cardinality(C)]

\* C4: every Region returned counts at least 50 cells and is the bounding
\* Region of an 8-connected component of at least 50 cells; a mask whose
\* components all have fewer than 50 cells yields the empty list.
C4_NoSmallRegion ==
    pc = "labelled" =>
        LET comps == ComponentsOf(TrueCells)
        IN  /\ \A k \in 1..Len(textRegions) :
                  /\ textRegions[k].pixelCount >= 50
                  /\ \E j \in 1..Len(comps) :
                        /\ Cardinality(comps[j]) >= 50
                        /\ textRegions[k] = BoundingRegion(comps[j])
            /\ (\A j \in 1..Len(comps) : Cardinality(comps[j]) < 50)
                  => textRegions = << >>

\* C4 witness: the mask is a 5-cell diagonal line and no Region is returned
C4_Witness ==
    /\ pc = "labelled"
    /\ TrueCells = { << k, k >> : k \in 0..4 }
    /\ textRegions = << >>

\* C5: the Regions returned are, in scan order, the bounding Regions of the
\* 8-connected components of at least 50 cells, one per component, each with
\* x = min column, y = min row, width = maxX - minX + 1, height = maxY -
\* minY + 1 and pixelCount = the component's cell count.
C5_OneRegionPerBigComponent ==
    pc = "labelled" =>
        LET big == SelectSeq(ComponentsOf(TrueCells), IsBig)
        IN  textRegions = [k \in 1..Len(big) |-> BoundingRegion(big[k])]

\* C5 witness: a single 10 x 10 block yields one Region of width 10, height
\* 10 and pixelCount 100
C5_Witness ==
    /\ pc = "labelled"
    /\ TrueCells = { << x, y >> : x \in 0..9, y \in 0..9 }
    /\ textRegions = << [x |-> 0, y |-> 0, width |-> 10, height |-> 10,
                         pixelCount |-> 100] >>

\* C6: two true cells are collected into the same component exactly when a
\* path of true cells with steps of at most 1 in x and in y joins them: every
\* true cell is in a component, no cell is collected twice, and the cells of
\* each component are exactly the cells such a path joins to its first cell.
C6_EightConnectivity ==
    pc = "labelled" =>
        /\ TrueCells = UNION { Range(components[k]) : k \in 1..Len(components) }
        /\ \A k \in 1..Len(components) :
              /\ Cardinality(Range(components[k])) = Len(components[k])
              /\ Range(components[k]) = Closure8({ components[k][1] })
        /\ \A j, k \in 1..Len(components) :
              j # k => Range(components[j]) \cap Range(components[k]) = {}

\* C6 witness: two blocks of 25 cells that touch only diagonally, at (4,4)
\* and (5,5), are collected into one component, emitted as one Region of 50
C6_Witness ==
    /\ pc = "labelled"
    /\ << 4, 4 >> \in TrueCells /\ << 5, 5 >> \in TrueCells
    /\ << 4, 5 >> \notin TrueCells /\ << 5, 4 >> \notin TrueCells
    /\ \E k \in 1..Len(components) :
          { << 4, 4 >>, << 5, 5 >> } \subseteq Range(components[k])
    /\ Len(textRegions) = 1
    /\ textRegions[1].pixelCount = 50

(***************************************************************************)
(* Properties of the AI and hybrid pipelines (checked under SpecHybrid).   *)
(***************************************************************************)
\* step 3 of removeBackgroundHybrid has run in the current call
Composited ==
    /\ pc \in { "hybrid.write", "returned" }
    /\ "composite" \in Range(events)

\* (x, y) lies in the rectangle of region r padded by padding
InPadded(x, y, r, padding) ==
    /\ r.x - padding <= x /\ x < r.x + r.width + padding
    /\ r.y - padding <= y /\ y < r.y + r.height + padding

\* the raster the claim describes for the padding given: source R, G, B and
\* alpha 255 inside some padded rectangle, the base pixel elsewhere
CompositeOf(base, source, regions, padding) ==
    [base EXCEPT !.data =
        [idx \in DOMAIN base.data |->
            IF \E k \in 1..Len(regions) :
                  InPadded(idx % base.width, idx \div base.width, regions[k],
                           padding)
            THEN Pixel(source.data[idx].r, source.data[idx].g,
                       source.data[idx].b, 255)
            ELSE base.data[idx]]]

\* C3: with the configured padding textPadding >= 0, every pixel inside some
\* region's padded rectangle ends with the source's R, G, B and alpha 255,
\* and every other pixel ends with the base raster's R, G, B, A.
C3_CompositeConfiguredPadding ==
    (Composited /\ opts.textPadding >= 0) =>
        combinedMask = CompositeOf(personMask, image, textRegions,
                                   opts.textPadding)

\* the same statement with the padding the loops use, this.textPadding
CompositeEffectivePadding ==
    Composited =>
        combinedMask = CompositeOf(personMask, image, textRegions,
                                   this.textPadding)

\* C7: every (px, py) the compositing loops use lies inside the raster, and
\* the index computed from it is an index of both pixel buffers.
C7_CompositeInBounds ==
    \A c \in touched :
        /\ 0 <= c[1] /\ c[1] < image.width
        /\ 0 <= c[2] /\ c[2] < image.height
        /\ GetPixelIndex(personMask, c[1], c[2]) \in DOMAIN personMask.data
        /\ GetPixelIndex(personMask, c[1], c[2]) \in DOMAIN image.data

\* C7 witness: compositing has run on a region whose padded rectangle
\* reaches outside the raster on the left and above, and pixels were indexed
C7_Witness ==
    /\ Composited
    /\ touched # {}
    /\ \E k \in 1..Len(textRegions) :
          /\ textRegions[k].x - this.textPadding < 0
          /\ textRegions[k].y - this.textPadding < 0
          /\ textRegions[k].x + textRegions[k].width + this.textPadding > 0
          /\ textRegions[k].y + textRegions[k].height + this.textPadding > 0

\* the AI call of the current call is reached and raises
AiRaises ==
    /\ this.mode \in { "ai", "hybrid" }
    /\ file.exists
    /\ ToLowerCase(file.name.ext) \in Range(supportedFormats)
    /\ ~IsSome(file.ai)

\* C9: when the AI call raises in 'ai' or 'hybrid' mode, the call returns
\* false and does not throw, nothing is written, and no step of the pipeline
\* (decoding, text detection, compositing) runs.
C9_AiFailure ==
    AiRaises =>
        /\ pc \in { "call", "ai", "hybrid", "returned" }
        /\ ret \in { "none", "false" }
        /\ pc = "returned" => ret = "false"
        /\ writes = << >>
        /\ events = << >>
        /\ textRegions = << >> /\ combinedMask = NoRaster

\* C9 witness: a hybrid call whose AI call raised has returned false
C9_Witness ==
    /\ AiRaises
    /\ this.mode = "hybrid"
    /\ pc = "returned"
    /\ ret = "false"
    /\ writes = << >>

\* the OCR call of the current hybrid call is reached and throws
OcrThrows ==
    /\ this.mode = "hybrid"
    /\ this.textDetectionMode = "ocr"
    /\ "read" \in Range(events)
    /\ file.ocr.throws

\* C10: when the OCR call throws, text detection yields no region, the call
\* returns true, and the raster written is the AI cutout, pixel for pixel.
C10_OcrFailureAbsorbed ==
    OcrThrows =>
        /\ pc \in { "hybrid.detect", "hybrid.combine", "hybrid.write",
                    "returned" }
        /\ ret # "false" /\ ret # "throw"
        /\ pc # "hybrid.detect" => textRegions = << >>
        /\ pc \in { "hybrid.write", "returned" } =>
              combinedMask = Get(file.ai) /\ touched = {}
        /\ pc = "returned" =>
              /\ ret = "true"
              /\ writes = << [path |-> outputPath, raster |-> Get(file.ai)] >>

\* C10 witness: a hybrid call whose OCR call threw has returned true and
\* written the AI cutout, which differs from the source in every pixel
C10_Witness ==
    /\ OcrThrows
    /\ pc = "returned"
    /\ ret = "true"
    /\ Len(writes) = 1
    /\ writes[1].raster = Get(file.ai)
    /\ \A idx \in DOMAIN image.data :
          writes[1].raster.data[idx] # image.data[idx]

(***************************************************************************)
(* Properties of the batch loop (checked under SpecBatch).  What an image  *)
(* yields is stated as a function of the image and the configuration       *)
(* alone, so that no other entry of the directory can bear on it.          *)
(***************************************************************************)
ValidModes == { "ai", "color", "hybrid" }

\* the raster removeBackground writes for f when called on f alone, or None
\* when that call fails
Alone(f) ==
    IF this.mode = "ai"
    THEN f.ai
    ELSE IF this.mode = "color"
    THEN IF IsSome(f.raster) /\ IsSome(this.targetColor)
         THEN Some(ScanSingle(Get(f.raster), Get(this.targetColor),
                              this.threshold, this.feather))
         ELSE None
    ELSE IF IsSome(f.ai) /\ IsSome(f.raster)
         THEN Some(CompositeLoop(1, Get(f.ai), Get(f.raster),
                       detectTextRegions(f.ocr).regions, this.textPadding,
                       Get(f.raster).width, Get(f.raster).height))
         ELSE None

\* the stats.files entry of an image processed alone
AloneEntry(f) ==
    IF IsSome(Alone(f))
    THEN [input |-> f.name, output |-> BatchOutputName(f.name),
          status |-> "success"]
    ELSE [input |-> f.name, status |-> "failed"]

\* the files written by the first n images, each processed alone
RECURSIVE AloneWrites(_)
AloneWrites(n) ==
    IF n = 0 THEN << >>
    ELSE IF IsSome(Alone(imageFiles[n]))
    THEN Append(AloneWrites(n - 1),
                [path |-> BatchOutputName(imageFiles[n].name),
                 raster |-> Get(Alone(imageFiles[n]))])
    ELSE AloneWrites(n - 1)

\* the batch never aborts, attempts the images one by one in list order,
\* records for each settled image what that image yields alone, and has
\* attempted every image exactly once when it returns
BatchIsolated ==
    /\ bpc # "thrown"
    /\ Len(attempts) <= Len(imageFiles)
    /\ \A j \in 1..Len(attempts) : attempts[j] = imageFiles[j].name
    /\ Len(stats.files) = bi
    /\ bi <= Len(imageFiles)
    /\ \A j \in 1..Len(stats.files) :
         stats.files[j] = AloneEntry(imageFiles[j])
    /\ bpc \in { "loop", "returned" } =>
         /\ Len(attempts) = bi
         /\ writes = AloneWrites(bi)
    /\ bpc = "returned" => bi = Len(imageFiles)

\* C8, as amended: in a batch over an existing directory in mode 'ai',
\* 'color' or 'hybrid', for every list of supported image files and every
\* pattern of per-image failures, every image is attempted exactly once, in
\* list order; an image that fails is recorded as failed and nothing else
\* changes: every image's status and output file are what that image yields
\* when processed alone.
C8_BatchIsolation ==
    (dir.exists /\ this.mode \in ValidModes) => BatchIsolated

\* C8, as stated: the same for every configuration of the core.  (With a
\* mode other than the three, removeBackground throws on the first image
\* and processBatch rethrows: no image after it is attempted.)
C8_BatchIsolationAnyMode ==
    dir.exists => BatchIsolated

\* C8's case: a returned batch of three images in which an image failed and
\* a later image succeeded
C8_Witness ==
    /\ bpc = "returned"
    /\ this.mode \in ValidModes
    /\ Len(imageFiles) = 3
    /\ Len(attempts) = 3
    /\ \E i, j \in 1..Len(stats.files) :
         /\ i < j
         /\ stats.files[i].status = "failed"
         /\ stats.files[j].status = "success"
         /\ \E w \in 1..Len(writes) :
              writes[w].path = BatchOutputName(imageFiles[j].name)

(***************************************************************************)
(* Properties of the command line's configuration (checked under SpecCli). *)
(***************************************************************************)
\* a pixel scan of the color classifier is about to run or has run
ScanRuns == pc = "color.scan" \/ "classify" \in Range(events)

\* the threshold given on the command line is a number below 0 or above 441
ThresholdInvalid ==
    LET t == ArgsLoop(argv).threshold
    IN  IsSome(t) /\ (Get(t) < 0 \/ Get(t) > 441)

\* color mode is asked for with no --target-color
ReferenceColorMissing ==
    ArgsLoop(argv).mode = "color" /\ ~IsSome(argv.targetColor)

\* the run was refused: nothing was decoded, classified or written, and the
\* process, once it has exited, has exited with status 1
Refused ==
    /\ events = << >>
    /\ writes = << >>
    /\ image = NoRaster
    /\ cpc = "exited" => exitCode = 1

\* C11: an invalid threshold (negative or above 441) or a missing reference
\* color in color mode is reported and no image is decoded, classified or
\* written; so whenever a pixel scan runs, 0 <= threshold <= 441 and
\* feather >= 0.
C11_ConfigErrorsRejected ==
    /\ (ThresholdInvalid \/ ReferenceColorMissing) => Refused
    /\ ScanRuns =>
         /\ 0 <= this.threshold /\ this.threshold <= 441
         /\ this.feather >= 0

\* the part of C11 that the code keeps: color mode with no reference color
\* is refused by parseArgs
MissingReferenceColorRefused ==
    ReferenceColorMissing => Refused

(***************************************************************************)
(* Properties of the batch's error records (checked under SpecBatch).      *)
(***************************************************************************)
\* the file cannot be decoded
Unreadable(f) == ~IsSome(f.raster)

\* the batch has returned its summary
BatchReturned == bpc = "returned" /\ this.mode \in ValidModes

\* the summary lists f as failed
ListedFailed(f) ==
    \E j \in 1..Len(stats.files) :
        stats.files[j] = [input |-> f.name, status |-> "failed"]

\* C12: every file of the input directory that is unreadable or has an
\* unsupported extension fails alone, the batch goes on, and the returned
\* summary counts it in stats.failed and lists it in stats.files with
\* status 'failed'.
C12_IoErrorsRecorded ==
    BatchReturned =>
        /\ \A k \in 1..Len(dir.files) :
             (Unreadable(dir.files[k]) \/ ~isSupportedFormat(dir.files[k].name))
                 => ListedFailed(dir.files[k])
        /\ stats.failed >=
             Cardinality({ k \in 1..Len(dir.files) :
                 Unreadable(dir.files[k])
                     \/ ~isSupportedFormat(dir.files[k].name) })
        /\ Len(attempts) = Len(imageFiles)

\* the part of C12 that the code keeps: an unreadable file with a supported
\* extension fails alone and is counted and listed as failed, while a file
\* with an unsupported extension is dropped before the loop and appears
\* nowhere in the summary
UnreadableRecordedUnsupportedDropped ==
    BatchReturned =>
        /\ \A k \in 1..Len(dir.files) :
             IF isSupportedFormat(dir.files[k].name)
             THEN Unreadable(dir.files[k]) => ListedFailed(dir.files[k])
             ELSE /\ \A j \in 1..Len(stats.files) :
                       stats.files[j].input # dir.files[k].name
                  /\ \A j \in 1..Len(attempts) :
                       attempts[j] # dir.files[k].name
        /\ stats.total = Len(imageFiles)
        /\ stats.skipped = 0
        /\ Len(attempts) = Len(imageFiles)

(***************************************************************************)
(* Further properties of the color classifier (checked under SpecColor).   *)
(***************************************************************************)
\* pixel idx of the decoded raster lies in the feather band of the scan:
\* threshold < distance <= threshold + feather
InFeatherBand(idx) ==
    LET sq == SqDist(Decoded.data[idx], Get(this.targetColor))
    IN  /\ this.feather > 0
        /\ sq > this.threshold * this.threshold
        /\ sq <= (this.threshold + this.feather)
                    * (this.threshold + this.feather)

\* two pixels of equal input alpha in the feather band, the second farther
\* from the target color than the first
FeatherPair(i, j) ==
    /\ InFeatherBand(i) /\ InFeatherBand(j)
    /\ Decoded.data[i].a = Decoded.data[j].a
    /\ SqDist(Decoded.data[i], Get(this.targetColor))
          < SqDist(Decoded.data[j], Get(this.targetColor))

\* C13, as stated: in the feather band, of two pixels with the same input
\* alpha the farther one ends with an alpha <= that of the nearer one (the
\* alpha is non-increasing as the distance increases).
C13_FeatherNonIncreasing ==
    SinglePassRan =>
        \A i, j \in DOMAIN Decoded.data :
            FeatherPair(i, j) => image.data[j].a <= image.data[i].a

\* C13, as amended: in the feather band, of two pixels with the same input
\* alpha the farther one ends with an alpha >= that of the nearer one; the
\* alpha never exceeds the input alpha and equals it at distance
\* threshold + feather.
C13_FeatherNonDecreasing ==
    SinglePassRan =>
        /\ \A i, j \in DOMAIN Decoded.data :
              FeatherPair(i, j) => image.data[j].a >= image.data[i].a
        /\ \A i \in DOMAIN Decoded.data :
              InFeatherBand(i) =>
                 /\ image.data[i].a <= Decoded.data[i].a
                 /\ SqDist(Decoded.data[i], Get(this.targetColor))
                       = (this.threshold + this.feather)
                            * (this.threshold + this.feather)
                    => image.data[i].a = Decoded.data[i].a

\* C13 witness: two opaque pixels in the feather band at distances 12 and 16
\* of a scan with threshold 10 and feather 6 end with alpha 85 and 255
C13_Witness ==
    /\ SinglePassRan /\ pc = "returned"
    /\ this.threshold = 10 /\ this.feather = 6
    /\ \E i, j \in DOMAIN Decoded.data :
          /\ FeatherPair(i, j)
          /\ SqDist(Decoded.data[i], Get(this.targetColor)) = 144
          /\ SqDist(Decoded.data[j], Get(this.targetColor)) = 256
          /\ image.data[i].a = 85
          /\ image.data[j].a = 255

\* pixel p has exactly the color c
SameColor(p, c) == p.r = c.r /\ p.g = c.g /\ p.b = c.b

\* the multi-pass loop has run every pass of a list whose thresholds are 0
ZeroPassesRan ==
    /\ MultiPassRunning
    /\ pc \in { "color.write", "returned" }
    /\ \A k \in 1..Len(Get(this.colorPasses)) :
          Get(this.colorPasses)[k].threshold = 0

\* the multi-pass half of C14, which the code keeps: after passes of
\* threshold 0 a pixel is transparent iff it was transparent or has exactly
\* the color of one of the passes, and every other alpha is unchanged
MultiPassThresholdZeroExact ==
    ZeroPassesRan =>
        \A idx \in DOMAIN Decoded.data :
            image.data[idx].a =
               IF \E k \in 1..Len(Get(this.colorPasses)) :
                     SameColor(Decoded.data[idx], Get(this.colorPasses)[k].color)
               THEN 0
               ELSE Decoded.data[idx].a

\* C14: with a configured threshold of 0 (options.threshold = 0 in a
\* single-pass run without feather, or passes of threshold 0) the pixels
\* made transparent are exactly those whose R, G, B equal the reference
\* color, and the alpha of every pixel with a differing channel is unchanged.
C14_ThresholdZeroExact ==
    /\ (SinglePassRan /\ opts.threshold = 0 /\ opts.feather = 0) =>
          \A idx \in DOMAIN Decoded.data :
              image.data[idx].a =
                 IF SameColor(Decoded.data[idx], Get(this.targetColor))
                 THEN 0
                 ELSE Decoded.data[idx].a
    /\ MultiPassThresholdZeroExact

\* a single-pass scan with threshold 441 and no feather has run
Scan441Ran == SinglePassRan /\ this.threshold = 441 /\ this.feather = 0

\* the multi-pass loop has run every pass of its list
AllPassesRan == MultiPassRunning /\ pc \in { "color.write", "returned" }

EmptyPassListRun ==
    /\ this.mode = "color"
    /\ opts.colorPasses = Some(<< >>)
    /\ ~IsSome(opts.targetColor)
    /\ file.exists /\ isSupportedFormat(file.name) /\ IsSome(file.raster)

\* C16: color classification with an empty pass list on a readable raster
\* completes successfully and produces a raster identical to the input in
\* every pixel and channel.
C16_EmptyPassListNoOp ==
    (EmptyPassListRun /\ pc = "returned") =>
        /\ ret = "true"
        /\ Len(writes) = 1
        /\ writes[1].raster = Decoded

\* what the code does on C16's case: the single-pass branch is taken, the
\* missing target color is thrown before Jimp.read, and the call returns
\* false with nothing decoded, classified or written
EmptyPassListRefused ==
    (EmptyPassListRun /\ pc = "returned") =>
        /\ ret = "false"
        /\ events = << >>
        /\ writes = << >>

(***************************************************************************)
(* Algebraic properties of the compositor (checked under SpecHybrid): the  *)
(* region loop of removeBackgroundHybrid, applied again to its own result  *)
(* and applied to the regions in another order.                            *)
(***************************************************************************)
\* the region loop of step 3 on mask base, with the source, the padding and
\* the dimensions of the current call
ApplyRegions(base, regions) ==
    CompositeLoop(1, base, image, regions, this.textPadding, image.width,
                  image.height)

\* the rearrangements of a sequence
Rearrangements(seq) ==
    { [k \in 1..Len(seq) |-> seq[f[k]]] :
        f \in { g \in [1..Len(seq) -> 1..Len(seq)] :
                  \A i, j \in 1..Len(seq) : i # j => g[i] # g[j] } }

\* two regions of the current call whose padded, clipped areas share a pixel
RegionsOverlap ==
    \E j, k \in 1..Len(textRegions) :
        /\ j # k
        /\ textRegions[j] # textRegions[k]
        /\ RegionCells(textRegions[j], this.textPadding, image.width,
                       image.height)
             \cap RegionCells(textRegions[k], this.textPadding, image.width,
                              image.height) # {}

\* C17: applying the region list to the result of a first application gives
\* a raster identical to that result, for every base raster, source raster,
\* region list (overlapping regions included) and padding.
C17_CompositeIdempotent ==
    Composited => ApplyRegions(combinedMask, textRegions) = combinedMask

\* C17 witness: a composite of two overlapping regions that differs from
\* the AI cutout
C17_Witness ==
    /\ Composited
    /\ Len(textRegions) = 2
    /\ RegionsOverlap
    /\ combinedMask # personMask
    /\ ApplyRegions(combinedMask, textRegions) = combinedMask

\* C18: applying the regions in any order gives the same final raster, for
\* every base raster, source raster, padding and region list.
C18_CompositeOrderIndependent ==
    Composited =>
        \A regions \in Rearrangements(textRegions) :
            ApplyRegions(personMask, regions) = combinedMask

\* C18 witness: a composite of two different overlapping regions; the list
\* in reverse order is among its rearrangements
C18_Witness ==
    /\ Composited
    /\ Len(textRegions) = 2
    /\ RegionsOverlap
    /\ << textRegions[2], textRegions[1] >> \in Rearrangements(textRegions)
    /\ << textRegions[2], textRegions[1] >> # textRegions
    /\ combinedMask # personMask

(***************************************************************************)
(* Properties of the color-based text mask (checked under SpecLabel).      *)
(***************************************************************************)
\* the text mask of the current call has been built
MaskBuilt == pc \in { "label.scan", "label.bfs", "labelled" }

\* pixel p is within the text threshold of the color c = << r, g, b >>
NearTextColor(p, c) ==
    /\ this.textThreshold >= 0
    /\ (p.r - c[1]) * (p.r - c[1]) + (p.g - c[2]) * (p.g - c[2])
          + (p.b - c[3]) * (p.b - c[3])
          <= this.textThreshold * this.textThreshold

\* the cells whose pixel is within the text threshold of some text color,
\* the colors taken as a set
AnyColorCells ==
    { << idx % image.width, idx \div image.width >> :
        idx \in { i \in DOMAIN image.data :
                    \E c \in Range(this.textColors) :
                        NearTextColor(image.data[i], c) } }

\* C19: mask cell (x, y) is true exactly when the pixel's RGB distance to at
\* least one text color is <= the text threshold; so every rearrangement of
\* the list of text colors gives the identical mask, and the region list,
\* being that of the cells matching any color, is identical as well.
C19_TextMaskAnyColor ==
    MaskBuilt =>
        /\ \A idx \in DOMAIN image.data :
              textMask[idx] <=>
                 \E c \in Range(this.textColors) :
                     NearTextColor(image.data[idx], c)
        /\ \A colors \in Rearrangements(this.textColors) :
              BuildTextMask(image, colors, this.textThreshold) = textMask
        /\ TrueCells = AnyColorCells
        /\ pc = "labelled" =>
              LET big == SelectSeq(ComponentsOf(AnyColorCells), IsBig)
              IN  textRegions = [k \in 1..Len(big) |-> BoundingRegion(big[k])]

\* C19 witness: with the text colors red and white, in this order, a white
\* and a red block of 25 cells each, side by side, are one region of 50
C19_Witness ==
    /\ pc = "labelled"
    /\ this.textColors = << << 255, 0, 0 >>, << 255, 255, 255 >> >>
    /\ image.data[0] = White
    /\ image.data[5] = RedText
    /\ textMask[0] /\ textMask[5]
    /\ textRegions = << [x |-> 0, y |-> 0, width |-> 10, height |-> 5,
                         pixelCount |-> 50] >>

(***************************************************************************)
(* Frame of the color classification (checked under SpecColor).            *)
(***************************************************************************)
\* rasters a and b have the same size and the same R, G, B in every pixel
SameSizeAndColor(a, b) ==
    /\ a.width = b.width
    /\ a.height = b.height
    /\ DOMAIN a.data = DOMAIN b.data
    /\ \A idx \in DOMAIN a.data :
          /\ a.data[idx].r = b.data[idx].r
          /\ a.data[idx].g = b.data[idx].g
          /\ a.data[idx].b = b.data[idx].b

\* C20: classification changes only the transparency channel: during and
\* after a single-pass or multi-pass scan, the raster has the width, the
\* height and, in every pixel, the R, G, B of the decoded raster, and so has
\* the raster that is written.
C20_OnlyAlphaChanges ==
    (SinglePassRan \/ MultiPassRunning) =>
        /\ SameSizeAndColor(image, Decoded)
        /\ pc = "returned" =>
              SameSizeAndColor(writes[Len(writes)].raster, Decoded)

\* C20 witness: a single-pass and a multi-pass run each returned with a
\* pixel of a non-black color made transparent
C20_WitnessRun(ran) ==
    /\ ran
    /\ pc = "returned"
    /\ \E idx \in DOMAIN Decoded.data :
          /\ Decoded.data[idx].a = 255
          /\ Decoded.data[idx].r > 0
          /\ image.data[idx].a = 0
          /\ image.data[idx].r = Decoded.data[idx].r

C20_Witness == C20_WitnessRun(SinglePassRan)

C20_WitnessMultiPass == C20_WitnessRun(MultiPassRunning)

(***************************************************************************)
(* Mode routing (checked under SpecRoute).  events lists, in order, the    *)
(* steps the current call has taken: "ai" the AI collaborator's call,      *)
(* "read" a Jimp.read, "classify" a scan of the color classifier, "ocr"    *)
(* the OCR collaborator's call, "textmask" the text-mask construction,     *)
(* "label" the labeler, "composite" the compositor and "write" the write   *)
(* of the output.                                                          *)
(***************************************************************************)
InCall == pc # "idle"

\* the program positions of the three pipelines
AiPositions == { "ai", "ai.write" }

ColorPositions == { "color", "color.pass", "color.scan", "color.write" }

HybridPositions ==
    { "hybrid", "hybrid.read", "hybrid.detect", "hybrid.combine",
      "hybrid.write", "label", "label.scan", "label.bfs", "labelled" }

\* the call ended in Done (true) or Failed (false)
EndsDoneOrFailed == pc = "returned" => ret \in { "true", "false" }

\* the pipeline of the configured mode, and no other, runs
RoutedByMode ==
    /\ this.mode = "ai" =>
          /\ pc \in { "call", "returned" } \cup AiPositions
          /\ Range(events) \subseteq { "ai", "write" }
          /\ image = NoRaster
          /\ pixelsChanged = << >>
          /\ textMask = << >>
          /\ components = << >>
          /\ textRegions = << >>
          /\ combinedMask = NoRaster
    /\ this.mode = "color" =>
          /\ pc \in { "call", "returned" } \cup ColorPositions
          /\ Range(events) \subseteq { "read", "classify", "write" }
          /\ personMask = NoRaster
          /\ textMask = << >>
          /\ components = << >>
          /\ textRegions = << >>
          /\ combinedMask = NoRaster
    /\ this.mode = "hybrid" =>
          /\ pc \in { "call", "returned" } \cup HybridPositions
          /\ "classify" \notin Range(events)
          /\ pixelsChanged = << >>
    /\ ret = "true" =>
          /\ this.mode \in ValidModes
          /\ Len(writes) = 1
          /\ events[Len(events)] = "write"
          /\ this.mode = "ai" => events = << "ai", "write" >>
          /\ this.mode = "color" => "classify" \in Range(events)
          /\ this.mode = "hybrid" => "composite" \in Range(events)

\* C21 as stated: every removeBackground call runs the one pipeline its mode
\* selects (ai: the AI collaborator only; color: the color classifier only,
\* no AI or OCR call; hybrid: the hybrid pipeline) and ends by returning
\* true or false.
C21_ModeRouting ==
    InCall => (RoutedByMode /\ EndsDoneOrFailed)

\* C21 amended: with mode 'ai', 'color' or 'hybrid' the call runs the one
\* pipeline its mode selects and ends by returning true or false; with any
\* other mode the router throws and no pipeline step is taken.
C21_ModeRoutingKnownModes ==
    InCall =>
        /\ RoutedByMode
        /\ this.mode \in ValidModes => EndsDoneOrFailed
        /\ this.mode \notin ValidModes =>
              /\ pc \in { "call", "returned" }
              /\ pc = "returned" => ret = "throw"
              /\ events = << >>
              /\ writes = << >>

\* C21 witness: a color-mode call on a file the AI and OCR collaborators
\* could both work on returned true after classifying
C21_Witness ==
    /\ this.mode = "color"
    /\ IsSome(file.ai)
    /\ Len(file.ocr.words) = 1
    /\ pc = "returned"
    /\ ret = "true"
    /\ events = << "read", "classify", "write" >>

\* a call with a mode the router does not know has thrown
C21_UnknownModeThrown ==
    /\ this.mode \notin ValidModes
    /\ pc = "returned"
    /\ ret = "throw"

(***************************************************************************)
(* The color metric (checked under SpecColor): the colors are those the    *)
(* scans of the current call compare, and a grid of colors.                *)
(***************************************************************************)
\* the reference colors of the configuration
ReferenceColors ==
    (IF IsSome(this.targetColor) THEN { Get(this.targetColor) } ELSE {})
    \cup (IF IsSome(this.colorPasses)
          THEN { Get(this.colorPasses)[k].color :
                   k \in 1..Len(Get(this.colorPasses)) }
          ELSE {})

\* the colors of the pixels of the decoded raster
PixelColors ==
    IF IsSome(file.raster)
    THEN { RGB(Decoded.data[idx].r, Decoded.data[idx].g, Decoded.data[idx].b) :
             idx \in DOMAIN Decoded.data }
    ELSE {}

\* colors with every channel 0, 128 or 255
GridColors == { RGB(r, g, b) : r, g, b \in { 0, 128, 255 } }

\* C22: calculateColorDistance(a, b) = calculateColorDistance(b, a) and
\* calculateColorDistance(a, a) = 0 for all colors with channels in 0..255,
\* stated on the squared distance, an integer in 0..195075.
C22_MetricSymmetricZero ==
    \A a \in ReferenceColors \cup PixelColors \cup GridColors :
        /\ calculateColorDistanceSq(a, a) = 0
        /\ \A b \in ReferenceColors \cup PixelColors :
              /\ calculateColorDistanceSq(a, b) = calculateColorDistanceSq(b, a)
              /\ calculateColorDistanceSq(a, b) \in 0..195075
              /\ calculateColorDistanceSq(a, b) = 0 <=> a = b

\* C22 witness: a scan has compared a pixel at squared distance 25 and a
\* pixel at squared distance 195075 with the reference color Blue
C22_Witness ==
    /\ ScanRuns
    /\ Blue \in ReferenceColors
    /\ \E p, q \in PixelColors :
          /\ calculateColorDistanceSq(p, Blue) = 25
          /\ calculateColorDistanceSq(Blue, p) = 25
          /\ calculateColorDistanceSq(q, Blue) = 195075
          /\ calculateColorDistanceSq(Blue, q) = 195075

(***************************************************************************)
(* Step ordering of the hybrid pipeline (checked under SpecHybrid).        *)
(***************************************************************************)
\* sequence s is an initial part of sequence t
IsPrefix(s, t) ==
    /\ Len(s) <= Len(t)
    /\ \A k \in 1..Len(s) : s[k] = t[k]

\* the steps of a hybrid run that goes through, in order
HybridSteps ==
    IF this.textDetectionMode = "ocr"
    THEN << "ai", "read", "ocr", "composite", "write" >>
    ELSE IF this.textDetectionMode = "color"
    THEN << "ai", "read", "textmask", "label", "composite", "write" >>
    ELSE << "ai", "read", "composite", "write" >>

\* a hybrid-mode call is running or has returned
HybridCall == this.mode = "hybrid" /\ InCall

\* exactly one of the two text detections has run to its end
OneDetectionRan ==
    ("ocr" \in Range(events))
        # ("textmask" \in Range(events) /\ "label" \in Range(events))

\* the steps taken are an initial part of the pipeline's order, whole when
\* the call returns true; the output is written at most once, as the last
\* step, and not at all when the call returns false
StepsInOrder ==
    /\ IsPrefix(events, HybridSteps)
    /\ ret = "true" <=> events = HybridSteps
    /\ Len(writes) = (IF "write" \in Range(events) THEN 1 ELSE 0)
    /\ ret = "false" => writes = << >>
    /\ pc = "returned" => ret \in { "true", "false" }

\* C23 as stated: in every hybrid-mode run the AI call completes before text
\* detection starts, text detection - exactly one of the OCR call or the
\* color-based mask plus labeling, chosen by textDetectionMode - completes
\* before compositing starts, the output is written at most once and only
\* after compositing, and a run that fails writes nothing.
C23_HybridStepOrder ==
    HybridCall =>
        /\ StepsInOrder
        /\ "composite" \in Range(events) =>
              /\ OneDetectionRan
              /\ "ocr" \in Range(events) <=> this.textDetectionMode = "ocr"
              /\ "label" \in Range(events) <=> this.textDetectionMode = "color"

\* the run with a text detection mode that is neither 'ocr' nor 'color':
\* compositing and the write take place with no text detection at all
C23_NoDetectionRun ==
    /\ HybridCall
    /\ this.textDetectionMode \notin { "ocr", "color" }
    /\ ret = "true"
    /\ events = << "ai", "read", "composite", "write" >>
    /\ Len(writes) = 1

\* what holds of every hybrid-mode run: the order of the steps, with one
\* text detection when textDetectionMode is 'ocr' or 'color' and none
\* otherwise
HybridStepOrderAsCoded ==
    HybridCall =>
        /\ StepsInOrder
        /\ "composite" \in Range(events) =>
              /\ this.textDetectionMode \in { "ocr", "color" } <=> OneDetectionRan
              /\ "ocr" \in Range(events) <=> this.textDetectionMode = "ocr"
              /\ "label" \in Range(events) <=> this.textDetectionMode = "color"

(***************************************************************************)
(* Accounting of the batch loop (checked under SpecBatch).                 *)
(***************************************************************************)
\* the supported entries of the directory, in listing order
SupportedListed == SelectSeq(dir.files, LAMBDA f : isSupportedFormat(f.name))

\* processBatch is in its loop: between two iterations or awaiting the
\* removeBackground call of the current one
InBatchLoop == bpc \in { "loop", "await" }

\* C24: at every point of the loop stats.success + stats.failed is the
\* number of images processed so far and stats.files has one entry per
\* processed image, in processing order; at a normal return
\* stats.success + stats.failed = stats.total = the number of supported
\* files found and stats.skipped = 0; the images are processed one at a
\* time in the order of the directory listing.
C24_BatchAccounting ==
    /\ InBatchLoop =>
          /\ stats.success + stats.failed = bi
          /\ Len(stats.files) = bi
          /\ \A k \in 1..bi : stats.files[k].input = imageFiles[k].name
          /\ Cardinality({ k \in 1..bi : stats.files[k].status = "success" })
                = stats.success
          /\ Cardinality({ k \in 1..bi : stats.files[k].status = "failed" })
                = stats.failed
          /\ stats.total = Len(imageFiles)
          /\ imageFiles = SupportedListed
          /\ Len(attempts) = (IF bpc = "await" THEN bi + 1 ELSE bi)
          /\ \A k \in 1..Len(attempts) : attempts[k] = imageFiles[k].name
          /\ bpc = "await" => file = imageFiles[bi + 1]
          /\ bpc = "loop" => pc = "idle"
    /\ bpc = "returned" =>
          /\ stats.success + stats.failed = stats.total
          /\ stats.total = Len(SupportedListed)
          /\ Len(stats.files) = stats.total
          /\ \A k \in 1..stats.total :
                stats.files[k].input = SupportedListed[k].name
          /\ stats.skipped = 0
          /\ Len(attempts) = stats.total
          /\ pc = "idle"

\* C24 witness: a batch over a listing of three entries, one of them not
\* supported, returned with one image succeeded and one failed
C24_Witness ==
    /\ bpc = "returned"
    /\ Len(dir.files) = 3
    /\ stats.total = 2
    /\ stats.success = 1
    /\ stats.failed = 1
    /\ stats.files[1].status = "failed"
    /\ stats.files[2].status = "success"

(***************************************************************************)
(* Exit status of a batch run of the command line (checked under SpecCli). *)
(***************************************************************************)
\* the command line asks for a batch: no single file and no --help
BatchRun == ~IsSome(argv.singleFile) /\ ~argv.help

\* the images of the batch that were processed successfully
SucceededImages ==
    { k \in 1..Len(stats.files) : stats.files[k].status = "success" }

\* the ZIP was asked for and its creation failed
ZipFailed == argv.zip /\ argv.zipFails

\* C25: a batch run exits with status 0 exactly when at least one image was
\* processed successfully and, with --zip, the ZIP creation did not fail,
\* and with status 1 in every other case; the ZIP is created only with
\* --zip, only when an image succeeded, and only after all images have
\* been processed.
C25_CliExitStatus ==
    BatchRun =>
        /\ cpc = "exited" =>
              /\ exitCode \in { 0, 1 }
              /\ exitCode = 0 <=>
                    /\ bpc = "returned"
                    /\ SucceededImages # {}
                    /\ Len(writes) >= 1
                    /\ ~ZipFailed
        /\ (cpc = "zip" \/ zips # << >>) =>
              /\ argv.zip
              /\ SucceededImages # {}
              /\ bpc = "returned"
              /\ bi = Len(imageFiles)
              /\ Len(stats.files) = Len(imageFiles)
        /\ zips # << >> =>
              /\ zips = << writes >>
              /\ exitCode = 0

\* C25 witness: a batch run with --zip in which one image failed and one
\* succeeded created the ZIP and exited with status 0
C25_Witness ==
    /\ BatchRun
    /\ argv.zip
    /\ cpc = "exited"
    /\ exitCode = 0
    /\ stats.failed = 1
    /\ stats.success = 1
    /\ Len(zips) = 1

\* batch runs that exit with status 1: every image failed; the ZIP creation
\* failed after an image succeeded
C25_WitnessAllFailed ==
    /\ BatchRun /\ cpc = "exited" /\ exitCode = 1
    /\ bpc = "returned" /\ stats.total = 1 /\ stats.failed = 1

C25_WitnessZipFailed ==
    /\ BatchRun /\ cpc = "exited" /\ exitCode = 1
    /\ stats.success = 1 /\ ZipFailed /\ zips = << >>

(***************************************************************************)
(* Order of the passes of the multi-pass scan (checked under SpecColor).   *)
(***************************************************************************)
\* pixel p lies within the threshold of at least one pass of the list
WithinSomePass(p, passes) ==
    \E k \in 1..Len(passes) :
        /\ passes[k].threshold >= 0
        /\ SqDist(p, passes[k].color)
              <= passes[k].threshold * passes[k].threshold

RECURSIVE SumOf(_)
SumOf(counts) ==
    IF counts = << >> THEN 0 ELSE Head(counts) + SumOf(Tail(counts))

\* C26: after all passes, alpha is 0 at exactly the pixels that were
\* transparent at first or lie within the threshold of at least one pass,
\* and every other pixel is unchanged; so every permutation of the pass
\* list gives the same final raster, and the per-pass counts sum to the
\* number of pixels that went from nonzero alpha to alpha 0.
C26_PassOrderIndependent ==
    AllPassesRan =>
        LET passes == Get(this.colorPasses)
        IN  /\ \A idx \in DOMAIN Decoded.data :
                  image.data[idx] =
                     IF \/ Decoded.data[idx].a = 0
                        \/ WithinSomePass(Decoded.data[idx], passes)
                     THEN [Decoded.data[idx] EXCEPT !.a = 0]
                     ELSE Decoded.data[idx]
            /\ \A perm \in Rearrangements(passes) :
                  PassLoop(1, Decoded, perm) = image
            /\ Len(pixelsChanged) = Len(passes)
            /\ SumOf(pixelsChanged) =
                  Cardinality({ idx \in DOMAIN Decoded.data :
                                  /\ Decoded.data[idx].a # 0
                                  /\ image.data[idx].a = 0 })

\* C26 witness: the passes Blue within 10 and then Blue exactly, on a blue
\* pixel and a pixel at distance 5: the first pass removed both and the
\* second, which matches the blue pixel, counted none
C26_Witness ==
    /\ AllPassesRan
    /\ pc = "returned"
    /\ Get(this.colorPasses) = << [color |-> Blue, threshold |-> 10],
                                  [color |-> Blue, threshold |-> 0] >>
    /\ Decoded.data[0] = Pixel(0, 0, 255, 255)
    /\ Decoded.data[1] = Pixel(3, 4, 255, 255)
    /\ pixelsChanged = << 2, 0 >>
    /\ image.data[0].a = 0 /\ image.data[1].a = 0

\* the same raster with the two passes in the other order: the counts are
\* 1 and 1, the final raster is the same
C26_WitnessOtherOrder ==
    /\ AllPassesRan
    /\ pc = "returned"
    /\ Get(this.colorPasses) = << [color |-> Blue, threshold |-> 0],
                                  [color |-> Blue, threshold |-> 10] >>
    /\ Decoded.data[0] = Pixel(0, 0, 255, 255)
    /\ Decoded.data[1] = Pixel(3, 4, 255, 255)
    /\ pixelsChanged = << 1, 1 >>
    /\ image.data[0].a = 0 /\ image.data[1].a = 0

(***************************************************************************)
(* Output paths of a batch (checked under SpecBatch).                      *)
(***************************************************************************)
\* the output paths written so far
WrittenPaths == { writes[k].path : k \in 1..Len(writes) }

\* no output path has been written twice
NoOverwrite ==
    \A j, k \in 1..Len(writes) : j # k => writes[j].path # writes[k].path

\* C27: in processBatch every successfully processed input is written to an
\* output path of its own: no image's output is overwritten by a later
\* image of the batch, and the number of distinct output files written is
\* stats.success.
C27_DistinctOutputs ==
    bpc \in { "loop", "await", "returned" } =>
        /\ NoOverwrite
        /\ pc \in { "idle", "call" } => Cardinality(WrittenPaths) = stats.success

\* a batch over a.jpg and a.png, both sound: two successes, one output file
C27_Overwritten ==
    /\ bpc = "returned"
    /\ stats.success = 2
    /\ Len(writes) = 2
    /\ writes[1].path = writes[2].path
    /\ writes[1].raster # writes[2].raster
    /\ Cardinality(WrittenPaths) = 1

\* the supported entries of the listing have basenames that all differ
DistinctBasenames ==
    \A j, k \in 1..Len(SupportedListed) :
        j # k => SupportedListed[j].name.base # SupportedListed[k].name.base

\* what holds of every batch: the outputs are distinct exactly as far as
\* the basenames of the inputs are; each success is one write
DistinctOutputsForDistinctBasenames ==
    bpc \in { "loop", "await", "returned" } =>
        /\ DistinctBasenames => NoOverwrite
        /\ pc \in { "idle", "call" } =>
              /\ Len(writes) = stats.success
              /\ DistinctBasenames => Cardinality(WrittenPaths) = stats.success

====
